---- MODULE Spec2Model ----
(***************************************************************************)
(* Model of the drape front-end read manager (df::ReadManager), the tile   *)
(* reader tasks it schedules and the worker pool that runs them.           *)
(*                                                                         *)
(* Geometry is modelled on an integer mercator plane.  A viewport is a     *)
(* square of half-side r centred at (cx, cy); rot = 0 is axis aligned,     *)
(* rot = 1 is the same square turned by 45 degrees (the L1 ball of radius  *)
(* r), whose clip rectangle is the bounding box [cx-r, cx+r]^2.            *)
(***************************************************************************)
EXTENDS Integers, Sequences, FiniteSets, TLC

VARIABLES
  m_currentViewport,  \* ReadManager::m_currentViewport
  m_tileInfos,        \* ReadManager::m_tileInfos: TileInfo ids, sorted by TileKey
  heap,               \* every TileInfo ever allocated: id -> [key, cancelled]
  m_tasks,            \* the pool's pending deque; a task is the id of its TileInfo
  poolState,          \* "running" | "stopping" | "destroyed"
  workers,            \* worker -> [task, pc, fid]; task = 0 when idle
  context,            \* engine context: set of <<TileKey, feature>> delivered
  descr,              \* the CoverageUpdateDescriptor of the current/last call
  managerPc,          \* control thread: "idle" | "reset" | "incremental" | "joining" | "stopped"
  local,              \* locals of the UpdateCoverage call in progress
  last,               \* history of the last manager call (pre-state and effects)
  m_memIndex,         \* ReadManager::m_memIndex: TileInfo ids holding a memory ticket
  feature,            \* the FeatureType object under decoding
  lastCall,           \* history of the last FeatureType call
  tts,                \* the TtsPlayer singleton, its stored settings and pending callbacks
  engineCalls,        \* the TextToSpeech calls the last TtsPlayer step made
  matcher             \* the FeaturesLayerMatcher POI matching call in progress

managerVars == <<m_currentViewport, m_tileInfos, heap, m_tasks, poolState, workers,
                 context, descr, managerPc, local, last, m_memIndex>>

decoderVars == <<feature, lastCall>>

playerVars == <<tts, engineCalls>>

matcherVars == <<matcher>>

vars == <<managerVars, decoderVars, playerVars, matcherVars>>

-----------------------------------------------------------------------------
(* Bounds of the model *)

\* platform CPU core count
CpuCores == 3

\* TileInfo objects the manager may allocate in one behaviour
MaxInfos == 4

\* pending tasks the pool deque may hold
MaxQueue == 4

\* feature records the feature model yields per tile
MaxFeatures == 1

-----------------------------------------------------------------------------
(* Arithmetic helpers *)

Max(a, b) == IF a >= b THEN a ELSE b

Abs(a) == IF a >= 0 THEN a ELSE 0 - a

\* floor(a / b) and ceil(a / b) for b > 0
Floor(a, b) == a \div b

Ceil(a, b) == 0 - ((0 - a) \div b)

RECURSIVE Pow2(_)
Pow2(n) == IF n = 0 THEN 1 ELSE 2 * Pow2(n - 1)

RECURSIVE Reverse(_)
Reverse(s) == IF s = <<>> THEN <<>> ELSE Reverse(Tail(s)) \o <<Head(s)>>

SeqToSet(s) == { s[i] : i \in 1..Len(s) }

-----------------------------------------------------------------------------
(* Viewports (ScreenBase) and scales *)

\* MercatorBounds::maxX - MercatorBounds::minX, in model units
MercatorRange == 32

\* the default-constructed ScreenBase: covers nothing
EmptyViewport == [scale |-> 0, cx |-> 0, cy |-> 0, r |-> 0 - 1, rot |-> 0]

\* the viewports the camera may take (tiles are 8 units wide at scale 2, 16 at scale 1):
\* two overlapping pans, a small view inside tile (0,0), a rotated view, a zoomed-out view
Viewports ==
  { [scale |-> 2, cx |-> 8,  cy |-> 4, r |-> 4, rot |-> 0],
    [scale |-> 2, cx |-> 16, cy |-> 4, r |-> 4, rot |-> 0],
    [scale |-> 2, cx |-> 2,  cy |-> 4, r |-> 1, rot |-> 0],
    [scale |-> 2, cx |-> 6,  cy |-> 6, r |-> 3, rot |-> 1],
    [scale |-> 1, cx |-> 8,  cy |-> 4, r |-> 4, rot |-> 0] }

\* ScalesProcessor::GetTileScaleBase
GetTileScaleBase(screen) == screen.scale

\* ScreenBase::ClipRect: the axis-aligned bounding box of the viewport
ClipRect(screen) ==
  [minX |-> screen.cx - screen.r, maxX |-> screen.cx + screen.r,
   minY |-> screen.cy - screen.r, maxY |-> screen.cy + screen.r]

\* distance from coordinate a to the interval [lo, hi]
AxisDist(a, lo, hi) == Max(Max(lo - a, a - hi), 0)

\* m2::AnyRectD::IsIntersect of a viewport polygon with an axis-aligned rectangle
IsIntersectRect(screen, rect) ==
  /\ screen.r >= 0
  /\ rect.minX <= rect.maxX /\ rect.minY <= rect.maxY
  /\ LET dx == AxisDist(screen.cx, rect.minX, rect.maxX)
         dy == AxisDist(screen.cy, rect.minY, rect.maxY)
     IN  IF screen.rot = 0
           THEN dx <= screen.r /\ dy <= screen.r
           ELSE dx + dy <= screen.r

\* m2::AnyRectD::IsIntersect of two viewport polygons
IsIntersect(a, b) ==
  /\ a.r >= 0 /\ b.r >= 0
  /\ LET dx == Abs(a.cx - b.cx)
         dy == Abs(a.cy - b.cy)
     IN  CASE a.rot = 0 /\ b.rot = 0 -> dx <= a.r + b.r /\ dy <= a.r + b.r
           [] a.rot = 1 /\ b.rot = 1 -> dx + dy <= a.r + b.r
           [] a.rot = 0 /\ b.rot = 1 -> IsIntersectRect(b, ClipRect(a))
           [] OTHER                  -> IsIntersectRect(a, ClipRect(b))

-----------------------------------------------------------------------------
(* TileKey *)

TileKey(x, y, z) == [x |-> x, y |-> y, z |-> z]

\* variant of TileKeyLess that is not strict in the last coordinate
TileKeyLessOrEqual(l, r) ==
  \/ l.z < r.z
  \/ l.z = r.z /\ l.x < r.x
  \/ l.z = r.z /\ l.x = r.x /\ l.y <= r.y

\* TileKey::operator<
TileKeyLess(l, r) ==
  \/ l.z < r.z
  \/ l.z = r.z /\ l.x < r.x
  \/ l.z = r.z /\ l.x = r.x /\ l.y < r.y

\* iteration order of a std::set<TileKey>
RECURSIVE SortKeys(_)
SortKeys(S) ==
  IF S = {} THEN <<>>
  ELSE LET m == CHOOSE k \in S : \A o \in S : o = k \/ TileKeyLess(k, o)
       IN  <<m>> \o SortKeys(S \ {m})

\* ReadManager::GetTileKeys
GetTileKeys(screen) ==
  LET tileScale == GetTileScaleBase(screen)
      rectSize  == MercatorRange \div Pow2(tileScale)
      clipRect  == ClipRect(screen)
      minTileX  == Floor(clipRect.minX, rectSize)
      maxTileX  == Ceil(clipRect.maxX, rectSize)
      minTileY  == Floor(clipRect.minY, rectSize)
      maxTileY  == Ceil(clipRect.maxY, rectSize)
  IN  { TileKey(tileX, tileY, tileScale) :
          <<tileX, tileY>> \in
            { c \in (minTileX .. maxTileX - 1) \X (minTileY .. maxTileY - 1) :
                IsIntersectRect(screen,
                  [minX |-> c[1] * rectSize, maxX |-> c[1] * rectSize + rectSize,
                   minY |-> c[2] * rectSize, maxY |-> c[2] * rectSize + rectSize]) } }

-----------------------------------------------------------------------------
(* The manager's data, threaded through the helpers of UpdateCoverage and  *)
(* Stop as a record m:                                                     *)
(*   heap        the TileInfo objects, id -> [key, cancelled]              *)
(*   tileInfos   m_tileInfos, ids in TileKey order                         *)
(*   tasks       the pool's pending deque                                  *)
(*   pushedFront, pushedBack  the tasks this call has pushed, in call order*)

\* TileInfo::Cancel: sets the cancelled flag
Cancel(info) == [info EXCEPT !.cancelled = TRUE]

\* variant of LessInfoKey with the operands of the comparison exchanged
LessInfoKeySwapped(heapNow, l, r) == TileKeyLess(r, heapNow[l].key)

\* LessCoverageCell(shared_ptr<TileInfo>, TileKey)
LessInfoKey(heapNow, l, r) == TileKeyLess(heapNow[l].key, r)

\* variant of LessKeyInfo with the operands of the comparison exchanged
LessKeyInfoSwapped(heapNow, l, r) == TileKeyLess(heapNow[r].key, l)

\* LessCoverageCell(TileKey, shared_ptr<TileInfo>)
LessKeyInfo(heapNow, l, r) == TileKeyLess(l, heapNow[r].key)

\* std::set_difference(m_tileInfos, tiles, LessCoverageCell): the outdated TileInfos
RECURSIVE OutdatedTiles(_, _, _)
OutdatedTiles(heapNow, infos, tiles) ==
  IF infos = <<>> THEN <<>>
  ELSE IF tiles = <<>> THEN infos
  ELSE IF LessInfoKey(heapNow, Head(infos), Head(tiles))
         THEN <<Head(infos)>> \o OutdatedTiles(heapNow, Tail(infos), tiles)
  ELSE IF ~LessKeyInfo(heapNow, Head(tiles), Head(infos))
         THEN OutdatedTiles(heapNow, Tail(infos), Tail(tiles))
         ELSE OutdatedTiles(heapNow, infos, Tail(tiles))

\* std::set_difference(tiles, m_tileInfos, LessCoverageCell): the incoming TileKeys
RECURSIVE InputRects(_, _, _)
InputRects(heapNow, tiles, infos) ==
  IF tiles = <<>> THEN <<>>
  ELSE IF infos = <<>> THEN tiles
  ELSE IF LessKeyInfo(heapNow, Head(tiles), Head(infos))
         THEN <<Head(tiles)>> \o InputRects(heapNow, Tail(tiles), infos)
  ELSE IF ~LessInfoKey(heapNow, Head(infos), Head(tiles))
         THEN InputRects(heapNow, Tail(tiles), Tail(infos))
         ELSE InputRects(heapNow, tiles, Tail(infos))

\* std::set<tileinfo_ptr>::insert: keeps TileKey order, rejects an equivalent key
RECURSIVE SetInsert(_, _, _)
SetInsert(heapNow, infos, id) ==
  IF infos = <<>> THEN <<id>>
  ELSE IF TileKeyLess(heapNow[id].key, heapNow[Head(infos)].key) THEN <<id>> \o infos
  ELSE IF TileKeyLess(heapNow[Head(infos)].key, heapNow[id].key)
         THEN <<Head(infos)>> \o SetInsert(heapNow, Tail(infos), id)
         ELSE infos

\* std::set<tileinfo_ptr>::erase(value): removes the element equivalent to id
RECURSIVE SetErase(_, _, _)
SetErase(heapNow, infos, id) ==
  IF infos = <<>> THEN <<>>
  ELSE IF  ~TileKeyLess(heapNow[id].key, heapNow[Head(infos)].key)
        /\ ~TileKeyLess(heapNow[Head(infos)].key, heapNow[id].key)
         THEN Tail(infos)
         ELSE <<Head(infos)>> \o SetErase(heapNow, Tail(infos), id)

\* threads::ThreadPool::PushBack
PushBack(tasks, task) == Append(tasks, task)

\* threads::ThreadPool::PushFront
PushFront(tasks, task) == <<task>> \o tasks

\* variant of MustDropAllTiles that only compares the tile scales
MustDropAllTilesScaleOnly(currentViewport, screen) ==
  GetTileScaleBase(currentViewport) # GetTileScaleBase(screen)

\* ReadManager::MustDropAllTiles
MustDropAllTiles(currentViewport, screen) ==
  LET oldScale == GetTileScaleBase(currentViewport)
      newScale == GetTileScaleBase(screen)
  IN  (oldScale # newScale) \/ ~IsIntersect(currentViewport, screen)

\* variant of PushTaskBackForTileKey that revives an earlier TileInfo of the same key
PushTaskBackReusingInfo(m, tileKey) ==
  LET known == { id \in 1..Len(m.heap) : m.heap[id].key = tileKey }
  IN  IF known = {}
        THEN LET tileInfo == Len(m.heap) + 1
                 heapNew  == Append(m.heap, [key |-> tileKey, cancelled |-> FALSE])
             IN  [m EXCEPT !.heap = heapNew,
                           !.tileInfos = SetInsert(heapNew, m.tileInfos, tileInfo),
                           !.tasks = PushBack(m.tasks, tileInfo),
                           !.pushedBack = Append(m.pushedBack, tileInfo)]
        ELSE LET tileInfo == CHOOSE id \in known : \A o \in known : o <= id
                 heapNew  == [m.heap EXCEPT ![tileInfo].cancelled = FALSE]
             IN  [m EXCEPT !.heap = heapNew,
                           !.tileInfos = SetInsert(heapNew, m.tileInfos, tileInfo),
                           !.tasks = PushBack(m.tasks, tileInfo),
                           !.pushedBack = Append(m.pushedBack, tileInfo)]

\* ReadManager::PushTaskBackForTileKey
PushTaskBackForTileKey(m, tileKey) ==
  LET tileInfo == Len(m.heap) + 1
      heapNew  == Append(m.heap, [key |-> tileKey, cancelled |-> FALSE])
  IN  [m EXCEPT !.heap = heapNew,
                !.tileInfos = SetInsert(heapNew, m.tileInfos, tileInfo),
                !.tasks = PushBack(m.tasks, tileInfo),
                !.pushedBack = Append(m.pushedBack, tileInfo)]

\* variant of PushTaskFront that queues the re-read task behind the pending ones
PushTaskFrontAtBack(m, tileToReread) ==
  [m EXCEPT !.tasks = PushBack(m.tasks, tileToReread),
            !.pushedFront = Append(m.pushedFront, tileToReread)]

\* variant of PushTaskFront that queues nothing for a tile that has a task pending
PushTaskFrontUnlessPending(m, tileToReread) ==
  [m EXCEPT !.tasks = IF tileToReread \in SeqToSet(m.tasks) THEN @
                      ELSE PushFront(@, tileToReread),
            !.pushedFront = Append(m.pushedFront, tileToReread)]

\* ReadManager::PushTaskFront
PushTaskFront(m, tileToReread) ==
  [m EXCEPT !.tasks = PushFront(m.tasks, tileToReread),
            !.pushedFront = Append(m.pushedFront, tileToReread)]

\* variant of CancelTileInfo that leaves the cancelled flag alone
CancelTileInfoNoFlag(m, tileToCancel) ==
  m

\* ReadManager::CancelTileInfo
CancelTileInfo(m, tileToCancel) ==
  [m EXCEPT !.heap[tileToCancel] = Cancel(@)]

\* variant of ClearTileInfo that cancels the tile but leaves it in m_tileInfos
ClearTileInfoKeepLive(m, tileToClear) == CancelTileInfo(m, tileToClear)

\* ReadManager::ClearTileInfo
ClearTileInfo(m, tileToClear) ==
  LET c == CancelTileInfo(m, tileToClear)
  IN  [c EXCEPT !.tileInfos = SetErase(c.heap, c.tileInfos, tileToClear)]

\* for_each(infos, CancelTileInfo)
RECURSIVE ForEachCancelTileInfo(_, _)
ForEachCancelTileInfo(m, infos) ==
  IF infos = <<>> THEN m
  ELSE ForEachCancelTileInfo(CancelTileInfo(m, Head(infos)), Tail(infos))

\* for_each(outdatedTiles, ClearTileInfo)
RECURSIVE ForEachClearTileInfo(_, _)
ForEachClearTileInfo(m, infos) ==
  IF infos = <<>> THEN m
  ELSE ForEachClearTileInfo(ClearTileInfo(m, Head(infos)), Tail(infos))

\* for_each(m_tileInfos, PushTaskFront)
RECURSIVE ForEachPushTaskFront(_, _)
ForEachPushTaskFront(m, infos) ==
  IF infos = <<>> THEN m
  ELSE ForEachPushTaskFront(PushTaskFront(m, Head(infos)), Tail(infos))

\* for_each(tiles, PushTaskBackForTileKey)
RECURSIVE ForEachPushTaskBackForTileKey(_, _)
ForEachPushTaskBackForTileKey(m, tiles) ==
  IF tiles = <<>> THEN m
  ELSE ForEachPushTaskBackForTileKey(PushTaskBackForTileKey(m, Head(tiles)), Tail(tiles))

\* transform(outdatedTiles, TileInfoPtrToTileKey)
TileInfoPtrToTileKey(heapNow, infos) == [i \in 1..Len(infos) |-> heapNow[infos[i]].key]

\* the manager's data as a record
Manager == [heap |-> heap, tileInfos |-> m_tileInfos, tasks |-> m_tasks,
            pushedFront |-> <<>>, pushedBack |-> <<>>]

\* variant of ResetTiles that clears m_tileInfos without cancelling the tiles
ResetTilesNoCancel(m, tiles) ==
  ForEachPushTaskBackForTileKey([m EXCEPT !.tileInfos = <<>>], tiles)

\* UpdateCoverage, full-reset branch up to the descriptor call
ResetTiles(m, tiles) ==
  LET c == ForEachCancelTileInfo(m, m.tileInfos)
  IN  ForEachPushTaskBackForTileKey([c EXCEPT !.tileInfos = <<>>], tiles)

\* variant of ClearOutdated that cancels the surviving tiles as well
ClearOutdatedCancelAll(m, outdatedTiles) ==
  ForEachClearTileInfo(ForEachCancelTileInfo(m, m.tileInfos), outdatedTiles)

\* UpdateCoverage, incremental branch: cancel and erase the outdated tiles
ClearOutdated(m, outdatedTiles) == ForEachClearTileInfo(m, outdatedTiles)

\* UpdateCoverage, incremental branch after DropTiles: survivors front, incoming back
Reschedule(m, inputRects) ==
  ForEachPushTaskBackForTileKey(ForEachPushTaskFront(m, m.tileInfos), inputRects)

\* variant of StopTiles that clears m_tileInfos without cancelling the tiles
StopTilesNoCancel(m) == [m EXCEPT !.tileInfos = <<>>]

\* ReadManager::Stop up to the pool's Stop
StopTiles(m) ==
  LET c == ForEachCancelTileInfo(m, m.tileInfos)
  IN  [c EXCEPT !.tileInfos = <<>>]

\* ReadManager::ReadCount
ReadCount == Max(CpuCores - 2, 1)

Workers == 1..ReadCount

IdleWorker == [task |-> 0, pc |-> "idle", fid |-> 0]

NoLocal == [screen |-> EmptyViewport, tiles |-> <<>>, outdatedTiles |-> <<>>,
            inputRects |-> <<>>]

NoDescr == [dropAll |-> 0, dropTiles |-> <<>>]

\* pre-state and effects of a manager call
History(op, screen, m) ==
  [op |-> op, screen |-> screen,
   prevViewport |-> m_currentViewport, prevTileInfos |-> m_tileInfos,
   prevHeap |-> heap, prevTasks |-> m_tasks,
   tiles |-> IF op \in {"reset", "incremental"} THEN SortKeys(GetTileKeys(screen)) ELSE <<>>,
   pushedFront |-> m.pushedFront, pushedBack |-> m.pushedBack]

-----------------------------------------------------------------------------
(* Initial state: ReadManager::ReadManager *)

\* no feature is under decoding, no call was made on one
NoFeature == [status |-> "none"]

\* no POI matching call is in progress
NoMatcher == [pc |-> "none"]
NoCall == [op |-> "none", scale |-> 0, again |-> FALSE, sz |-> 0, ind |-> 0,
           reset |-> "none"]

\* the TtsPlayer singleton as constructed (TtsPlayer() {}): no engine, not
\* initializing, not locked down; enabled and language are the stored
\* Config.TTS settings, turnNotifications the native turn-notification switch
PlayerConstructed(enabled, turnNotifications, language) ==
  [mTts |-> "null", mInitializing |-> FALSE, mUnavailable |-> FALSE,
   mAudioManager |-> "null", enabled |-> enabled,
   turnNotifications |-> turnNotifications, language |-> language,
   callback |-> "none", delayed |-> 0, crashed |-> FALSE]

\* no TtsPlayer call was made
PlayerInit ==
  /\ tts = PlayerConstructed(FALSE, FALSE, 0)
  /\ engineCalls = <<>>

\* the manager as constructed: no viewport, no tile, an idle pool
ManagerInit ==
  /\ m_currentViewport = EmptyViewport
  /\ m_tileInfos = <<>>
  /\ heap = <<>>
  /\ m_tasks = <<>>
  /\ poolState = "running"
  /\ workers = [w \in Workers |-> IdleWorker]
  /\ context = {}
  /\ descr = NoDescr
  /\ managerPc = "idle"
  /\ local = NoLocal
  /\ last = History("none", EmptyViewport, Manager)
  /\ m_memIndex = {}

Init ==
  /\ ManagerInit
  /\ feature = NoFeature
  /\ lastCall = NoCall
  /\ PlayerInit
  /\ matcher = NoMatcher

-----------------------------------------------------------------------------
(* Control thread *)

\* variant of UpdateCoverageSame without the early return: the call runs the
\* incremental branch, where nothing is outdated or incoming
UpdateCoverageSameFallsThrough(screen) ==
  /\ managerPc = "idle"
  /\ screen = m_currentViewport
  /\ LET m == ForEachPushTaskFront(Manager, m_tileInfos)
     IN  /\ Len(m.tasks) <= MaxQueue
         /\ m_tasks' = m.tasks
         /\ last' = History("incremental", screen, m)
  /\ descr' = [NoDescr EXCEPT !.dropTiles = << <<>> >>]
  /\ UNCHANGED <<m_currentViewport, m_tileInfos, heap, poolState, workers,
                 context, managerPc, local>>
  /\ UNCHANGED <<m_memIndex, decoderVars, playerVars, matcherVars>>

\* UpdateCoverage called with screen == m_currentViewport: returns at once
UpdateCoverageSame(screen) ==
  /\ managerPc = "idle"
  /\ screen = m_currentViewport
  /\ descr' = NoDescr
  /\ last' = History("noop", screen, Manager)
  /\ UNCHANGED <<m_currentViewport, m_tileInfos, heap, m_tasks, poolState, workers,
                 context, managerPc, local>>
  /\ UNCHANGED <<m_memIndex, decoderVars, playerVars, matcherVars>>

\* variant of UpdateCoverageReset that tells the descriptor before it pushes the tasks
UpdateCoverageResetDropAllFirst(screen) ==
  /\ managerPc = "idle"
  /\ screen # m_currentViewport
  /\ MustDropAllTiles(m_currentViewport, screen)
  /\ LET tiles == SortKeys(GetTileKeys(screen))
         m     == ResetTiles(Manager, tiles)
     IN  /\ Len(m.heap) <= MaxInfos
         /\ Len(m.tasks) <= MaxQueue
         /\ heap' = m.heap
         /\ m_tileInfos' = m.tileInfos
         /\ m_tasks' = m.tasks
         /\ local' = [NoLocal EXCEPT !.screen = screen, !.tiles = tiles]
         /\ last' = History("reset", screen, m)
  /\ descr' = [NoDescr EXCEPT !.dropAll = 1]
  /\ managerPc' = "reset"
  /\ UNCHANGED <<m_currentViewport, poolState, workers, context>>
  /\ UNCHANGED <<m_memIndex, decoderVars, playerVars, matcherVars>>

\* UpdateCoverage, full-reset branch: cancel all, clear, push the new tiles back
UpdateCoverageReset(screen) ==
  /\ managerPc = "idle"
  /\ screen # m_currentViewport
  /\ MustDropAllTiles(m_currentViewport, screen)
  /\ LET tiles == SortKeys(GetTileKeys(screen))
         m     == ResetTiles(Manager, tiles)
     IN  /\ Len(m.heap) <= MaxInfos
         /\ Len(m.tasks) <= MaxQueue
         /\ heap' = m.heap
         /\ m_tileInfos' = m.tileInfos
         /\ m_tasks' = m.tasks
         /\ local' = [NoLocal EXCEPT !.screen = screen, !.tiles = tiles]
         /\ last' = History("reset", screen, m)
  /\ descr' = NoDescr
  /\ managerPc' = "reset"
  /\ UNCHANGED <<m_currentViewport, poolState, workers, context>>
  /\ UNCHANGED <<m_memIndex, decoderVars, playerVars, matcherVars>>

\* variant of UpdateCoverageDropAll that commits the viewport without telling
\* the descriptor
UpdateCoverageNoDropAll ==
  /\ managerPc = "reset"
  /\ m_currentViewport' = local.screen
  /\ local' = NoLocal
  /\ managerPc' = "idle"
  /\ UNCHANGED <<m_tileInfos, heap, m_tasks, poolState, workers, context, last, descr>>
  /\ UNCHANGED <<m_memIndex, decoderVars, playerVars, matcherVars>>

\* ... then updateDescr.DropAll() and m_currentViewport = screen
UpdateCoverageDropAll ==
  /\ managerPc = "reset"
  /\ descr' = [descr EXCEPT !.dropAll = @ + 1]
  /\ m_currentViewport' = local.screen
  /\ local' = NoLocal
  /\ managerPc' = "idle"
  /\ UNCHANGED <<m_tileInfos, heap, m_tasks, poolState, workers, context, last>>
  /\ UNCHANGED <<m_memIndex, decoderVars, playerVars, matcherVars>>

\* UpdateCoverage, incremental branch: the two set differences, ClearTileInfo of the outdated
UpdateCoverageDiff(screen) ==
  /\ managerPc = "idle"
  /\ screen # m_currentViewport
  /\ ~MustDropAllTiles(m_currentViewport, screen)
  /\ LET tiles         == SortKeys(GetTileKeys(screen))
         outdatedTiles == OutdatedTiles(heap, m_tileInfos, tiles)
         inputRects    == InputRects(heap, tiles, m_tileInfos)
         m             == ClearOutdated(Manager, outdatedTiles)
     IN  /\ Len(heap) + Len(inputRects) <= MaxInfos
         /\ Len(m_tasks) + Len(m.tileInfos) + Len(inputRects) <= MaxQueue
         /\ heap' = m.heap
         /\ m_tileInfos' = m.tileInfos
         /\ local' = [screen |-> screen, tiles |-> tiles,
                      outdatedTiles |-> outdatedTiles, inputRects |-> inputRects]
         /\ last' = History("incremental", screen, m)
  /\ descr' = NoDescr
  /\ managerPc' = "incremental"
  /\ UNCHANGED <<m_currentViewport, m_tasks, poolState, workers, context>>
  /\ UNCHANGED <<m_memIndex, decoderVars, playerVars, matcherVars>>

\* ... then updateDescr.DropTiles(outdated keys), the survivors are pushed front,
\* the incoming tiles pushed back, and m_currentViewport = screen
UpdateCoverageDropTiles ==
  /\ managerPc = "incremental"
  /\ LET m == Reschedule(Manager, local.inputRects)
     IN  /\ heap' = m.heap
         /\ m_tileInfos' = m.tileInfos
         /\ m_tasks' = m.tasks
         /\ last' = [last EXCEPT !.prevTasks = m_tasks,
                                 !.pushedFront = m.pushedFront,
                                 !.pushedBack = m.pushedBack]
  /\ descr' = [descr EXCEPT
                 !.dropTiles = Append(@, TileInfoPtrToTileKey(heap, local.outdatedTiles))]
  /\ m_currentViewport' = local.screen
  /\ local' = NoLocal
  /\ managerPc' = "idle"
  /\ UNCHANGED <<poolState, workers, context>>
  /\ UNCHANGED <<m_memIndex, decoderVars, playerVars, matcherVars>>

\* ReadManager::Stop: cancel all, clear, m_pool->Stop() begins (no more pops)
Stop ==
  /\ managerPc = "idle"
  /\ LET m == StopTiles(Manager)
     IN  /\ heap' = m.heap
         /\ m_tileInfos' = m.tileInfos
         /\ last' = History("stop", m_currentViewport, m)
  /\ poolState' = "stopping"
  /\ managerPc' = "joining"
  /\ UNCHANGED <<m_currentViewport, m_tasks, workers, context, descr, local>>
  /\ UNCHANGED <<m_memIndex, decoderVars, playerVars, matcherVars>>

\* ... m_pool->Stop() has joined every worker: queued tasks are discarded,
\* m_pool.Destroy()
StopJoined ==
  /\ managerPc = "joining"
  /\ \A w \in Workers : workers[w].task = 0
  /\ m_tasks' = <<>>
  /\ poolState' = "destroyed"
  /\ managerPc' = "stopped"
  /\ UNCHANGED <<m_currentViewport, m_tileInfos, heap, workers, context, descr,
                 local, last>>
  /\ UNCHANGED <<m_memIndex, decoderVars, playerVars, matcherVars>>

-----------------------------------------------------------------------------
(* Worker threads: the pool routine and ReadMWMTask *)

\* the pool routine pops the next pending task; the task starts by taking the
\* tile's memory ticket
WorkerPop(w) ==
  /\ poolState = "running"
  /\ workers[w].task = 0
  /\ m_tasks # <<>>
  /\ workers' = [workers EXCEPT ![w] = [task |-> Head(m_tasks), pc |-> "check", fid |-> 1]]
  /\ m_tasks' = Tail(m_tasks)
  /\ m_memIndex' = m_memIndex \cup {Head(m_tasks)}
  /\ UNCHANGED <<m_currentViewport, m_tileInfos, heap, poolState, context, descr,
                 managerPc, local, last>>
  /\ UNCHANGED <<decoderVars, playerVars, matcherVars>>

\* variant of OnTaskFinished that also drops the finished tile from the live set
OnTaskFinishedErase(infos, task) ==
  SelectSeq(infos, LAMBDA id : id # task)

\* ReadManager::OnTaskFinished: the task object is deleted, the live set is
\* not touched
OnTaskFinished(infos, task) ==
  infos

\* variant of ReaderCheck that does not look at the cancelled flag
ReaderCheckIgnoresCancel(w) ==
  /\ workers[w].pc = "check"
  /\ LET task == workers[w].task
         done == workers[w].fid > MaxFeatures
     IN /\ workers' = [workers EXCEPT ![w] =
               IF done THEN IdleWorker ELSE [@ EXCEPT !.pc = "append"]]
        /\ m_memIndex' = IF done THEN m_memIndex \ {task} ELSE m_memIndex
        /\ m_tileInfos' = IF done THEN OnTaskFinished(m_tileInfos, task) ELSE m_tileInfos
  /\ UNCHANGED <<m_currentViewport, heap, m_tasks, poolState, context,
                 descr, managerPc, local, last>>
  /\ UNCHANGED <<decoderVars, playerVars, matcherVars>>

\* ReadMWMTask checkpoint before a feature: a cancelled or exhausted tile ends
\* the task, which gives its memory ticket back; the pool then runs the
\* completion callback (OnTaskFinished)
ReaderCheck(w) ==
  /\ workers[w].pc = "check"
  /\ LET task == workers[w].task
         done == heap[task].cancelled \/ workers[w].fid > MaxFeatures
     IN /\ workers' = [workers EXCEPT ![w] =
               IF done THEN IdleWorker ELSE [@ EXCEPT !.pc = "append"]]
        /\ m_memIndex' = IF done THEN m_memIndex \ {task} ELSE m_memIndex
        /\ m_tileInfos' = IF done THEN OnTaskFinished(m_tileInfos, task) ELSE m_tileInfos
  /\ UNCHANGED <<m_currentViewport, heap, m_tasks, poolState, context,
                 descr, managerPc, local, last>>
  /\ UNCHANGED <<decoderVars, playerVars, matcherVars>>

\* ReadMWMTask decodes the feature and forwards it to the engine context
ReaderAppend(w) ==
  /\ workers[w].pc = "append"
  /\ context' = context \cup {<<heap[workers[w].task].key, workers[w].fid>>}
  /\ workers' = [workers EXCEPT ![w] = [@ EXCEPT !.pc = "check", !.fid = @ + 1]]
  /\ UNCHANGED <<m_currentViewport, m_tileInfos, heap, m_tasks, poolState, descr,
                 managerPc, local, last>>
  /\ UNCHANGED <<m_memIndex, decoderVars, playerVars, matcherVars>>

-----------------------------------------------------------------------------

Next ==
  \/ \E screen \in Viewports : UpdateCoverageSame(screen)
  \/ \E screen \in Viewports : UpdateCoverageReset(screen)
  \/ UpdateCoverageDropAll
  \/ \E screen \in Viewports : UpdateCoverageDiff(screen)
  \/ UpdateCoverageDropTiles
  \/ Stop
  \/ StopJoined
  \/ \E w \in Workers : WorkerPop(w)
  \/ \E w \in Workers : ReaderCheck(w)
  \/ \E w \in Workers : ReaderAppend(w)

Spec == Init /\ [][Next]_vars

-----------------------------------------------------------------------------
(* Vocabulary of the properties *)

\* the TileKeys of a sequence of TileInfo ids
KeysOf(heapNow, infos) == { heapNow[infos[i]].key : i \in 1..Len(infos) }

\* t is what is left of s after some elements were popped from its front
IsSuffix(t, s) ==
  /\ Len(t) <= Len(s)
  /\ t = SubSeq(s, Len(s) - Len(t) + 1, Len(s))

\* an UpdateCoverage call that was not short-circuited has returned
UpdateCompleted == managerPc = "idle" /\ last.op \in {"reset", "incremental"}

ResetCompleted == managerPc = "idle" /\ last.op = "reset"

IncrementalCompleted == managerPc = "idle" /\ last.op = "incremental"

\* the TileInfos whose flag the last call has set, and those it has allocated
CancelledByLast ==
  { id \in 1..Len(last.prevHeap) : ~last.prevHeap[id].cancelled /\ heap[id].cancelled }

CreatedByLast == (Len(last.prevHeap) + 1) .. Len(heap)

-----------------------------------------------------------------------------
\* C1: after every completed UpdateCoverage(V, d) (also a short-circuited one)
\* every TileKey of the live set is in GetTileKeys(V).
C1_LiveWithinTiles ==
  (managerPc = "idle" /\ last.op \in {"noop", "reset", "incremental"})
    => KeysOf(heap, m_tileInfos) \subseteq GetTileKeys(last.screen)

\* an incremental update that has dropped an outdated tile and kept a survivor
C1_Witness ==
  /\ IncrementalCompleted
  /\ m_tileInfos # <<>>
  /\ KeysOf(last.prevHeap, last.prevTileInfos) \ GetTileKeys(last.screen) # {}
  /\ KeysOf(last.prevHeap, last.prevTileInfos) \cap GetTileKeys(last.screen) # {}

\* C2: for consecutive updates V1, V2 on the incremental path, the TileInfos
\* cancelled by the second update are exactly those of enumerate(V1) \ enumerate(V2),
\* and the TileInfos it creates and back-enqueues are exactly one per key of
\* enumerate(V2) \ enumerate(V1).
C2_DiffIsSetDifference ==
  IncrementalCompleted =>
    LET old == GetTileKeys(last.prevViewport)
        new == GetTileKeys(last.screen)
    IN  /\ { heap[id].key : id \in CancelledByLast } = old \ new
        /\ Cardinality(CancelledByLast) = Cardinality(old \ new)
        /\ { heap[id].key : id \in CreatedByLast } = new \ old
        /\ Cardinality(CreatedByLast) = Cardinality(new \ old)
        /\ SeqToSet(last.pushedBack) = CreatedByLast
        /\ Len(last.pushedBack) = Cardinality(CreatedByLast)

\* a pan that cancels one tile, keeps one and schedules one
C2_Witness ==
  /\ IncrementalCompleted
  /\ CancelledByLast # {}
  /\ CreatedByLast # {}
  /\ last.pushedFront # <<>>

\* C3: a call of UpdateCoverage whose viewport equals the current viewport
\* changes nothing: live set, cancelled flags, pool queue, workers and current
\* viewport are unchanged and the descriptor receives no drop_all or drop_tiles.
C3_SameViewportNoEffect ==
  [][ (managerPc = "idle" /\ last' # last /\ last'.op # "stop"
         /\ last'.screen = m_currentViewport)
      => /\ UNCHANGED <<m_currentViewport, m_tileInfos, heap, m_tasks, poolState,
                        workers, context, managerPc>>
         /\ descr'.dropAll = 0
         /\ descr'.dropTiles = <<>> ]_vars

\* a short-circuited call made while tiles are live and tasks are pending
C3_Witness ==
  /\ last.op = "noop"
  /\ last.prevTileInfos # <<>>
  /\ last.prevTasks # <<>>
  /\ m_tasks = last.prevTasks

\* C4: in every reachable state the live set holds at most one TileInfo per TileKey.
C4_OneInfoPerKey ==
  \A i, j \in 1..Len(m_tileInfos) :
    i # j => heap[m_tileInfos[i]].key # heap[m_tileInfos[j]].key

\* a live set of several tiles built by a reset followed by an incremental update
C4_Witness ==
  /\ IncrementalCompleted
  /\ Len(m_tileInfos) >= 3
  /\ CreatedByLast # {}

\* C5: a non-short-circuited UpdateCoverage takes the full-reset path exactly
\* when the tile scales of the current and the new viewport differ or their
\* polygons do not intersect, and the incremental path otherwise.
C5_ResetIffMustReset ==
  (last.op \in {"reset", "incremental"}) =>
    ( last.op = "reset"
        <=> ( GetTileScaleBase(last.prevViewport) # GetTileScaleBase(last.screen)
              \/ ~IsIntersect(last.prevViewport, last.screen) ) )

\* a reset between two viewports of the same scale that do not intersect
C5_Witness ==
  /\ last.op = "reset"
  /\ last.prevViewport \in Viewports
  /\ GetTileScaleBase(last.prevViewport) = GetTileScaleBase(last.screen)
  /\ ~IsIntersect(last.prevViewport, last.screen)

\* C6: after an update on the full-reset path every TileInfo that was live
\* before is cancelled and no longer live, the live set is exactly one fresh
\* non-cancelled TileInfo per key of the new tile set, exactly one task per new
\* tile was pushed back (and none front), and the descriptor has received
\* drop_all once and no drop_tiles.
C6_ResetEffect ==
  ResetCompleted =>
    /\ \A i \in 1..Len(last.prevTileInfos) :
         /\ heap[last.prevTileInfos[i]].cancelled
         /\ last.prevTileInfos[i] \notin SeqToSet(m_tileInfos)
    /\ SeqToSet(m_tileInfos) = CreatedByLast
    /\ \A id \in CreatedByLast : ~heap[id].cancelled
    /\ KeysOf(heap, m_tileInfos) = GetTileKeys(last.screen)
    /\ Len(m_tileInfos) = Cardinality(GetTileKeys(last.screen))
    /\ last.pushedFront = <<>>
    /\ last.pushedBack = m_tileInfos
    /\ IsSuffix(m_tasks, last.prevTasks \o last.pushedBack)
    /\ descr = [dropAll |-> 1, dropTiles |-> <<>>]

\* a reset that cancels a live tile whose key is also in the new tile set
C6_Witness ==
  /\ ResetCompleted
  /\ KeysOf(last.prevHeap, last.prevTileInfos) \cap GetTileKeys(last.screen) # {}

\* C7: after an update on the incremental path the descriptor has received one
\* drop_tiles whose keys are exactly (live keys before the update) \ (new tile
\* set), and no drop_all.
C7_DropTilesExact ==
  IncrementalCompleted =>
    /\ descr.dropAll = 0
    /\ Len(descr.dropTiles) = 1
    /\ SeqToSet(descr.dropTiles[1])
         = KeysOf(last.prevHeap, last.prevTileInfos) \ GetTileKeys(last.screen)
    /\ Len(descr.dropTiles[1]) = Cardinality(SeqToSet(descr.dropTiles[1]))

\* an incremental update with an outdated, a surviving and an incoming tile
C7_Witness ==
  /\ IncrementalCompleted
  /\ Len(descr.dropTiles) = 1
  /\ descr.dropTiles[1] # <<>>
  /\ last.pushedFront # <<>>
  /\ last.pushedBack # <<>>

\* C8: after an incremental update the pending queue is what is left, after pops
\* from the front, of: the survivor tasks pushed front, then the tasks pending
\* before the pushes, then the incoming tasks pushed back; one survivor task
\* was pushed front per surviving tile.
C8_SurvivorsFirst ==
  IncrementalCompleted =>
    /\ IsSuffix(m_tasks, Reverse(last.pushedFront) \o last.prevTasks \o last.pushedBack)
    /\ SeqToSet(last.pushedFront) = SeqToSet(m_tileInfos) \ CreatedByLast
    /\ Len(last.pushedFront) = Cardinality(SeqToSet(last.pushedFront))

\* straight after an incremental update that found a task pending and pushed
\* survivor and incoming tasks around it
C8_Witness ==
  /\ IncrementalCompleted
  /\ last.pushedFront # <<>>
  /\ last.pushedBack # <<>>
  /\ last.prevTasks # <<>>
  /\ m_tasks = Reverse(last.pushedFront) \o last.prevTasks \o last.pushedBack

\* C9: the cancelled flag of every TileInfo is monotonic: no step of the
\* manager or of a worker clears a flag that is set, and no TileInfo vanishes.
C9_CancelMonotonic ==
  [][ /\ Len(heap') >= Len(heap)
      /\ \A id \in 1..Len(heap) : heap[id].cancelled => heap'[id].cancelled ]_vars

\* a tile cancelled by an earlier call whose key has since been scheduled again
C9_Witness ==
  \E id \in 1..Len(last.prevHeap) :
    /\ last.prevHeap[id].cancelled
    /\ heap[id].cancelled
    /\ \E n \in CreatedByLast : heap[n].key = heap[id].key

\* C10: once Stop has begun the live set is empty, every TileInfo ever created
\* is cancelled, the pool takes no more tasks (the queue stays as it was at
\* Stop until the workers are joined), and when Stop has returned the pool is
\* destroyed, the queued tasks are discarded and no worker holds a task.
C10_StopEffect ==
  /\ managerPc \in {"joining", "stopped"} =>
       /\ m_tileInfos = <<>>
       /\ \A id \in 1..Len(heap) : heap[id].cancelled
       /\ poolState # "running"
  /\ managerPc = "joining" => m_tasks = last.prevTasks
  /\ managerPc = "stopped" =>
       /\ poolState = "destroyed"
       /\ m_tasks = <<>>
       /\ \A w \in Workers : workers[w].task = 0

\* Stop has returned after being called with live tiles and queued tasks
C10_Witness ==
  /\ managerPc = "stopped"
  /\ last.op = "stop"
  /\ last.prevTileInfos # <<>>
  /\ last.prevTasks # <<>>

-----------------------------------------------------------------------------
(* Cancellation seen from the reader tasks *)

\* C11: a reader task that reaches its checkpoint with its TileInfo cancelled
\* ends there: it appends nothing to the engine context and its memory ticket
\* is back in the index; and a task only goes on to decode a feature from a
\* checkpoint at which its TileInfo was not cancelled, so a task dequeued after
\* the cancellation appends nothing at all.
C11_CancelledTaskStops ==
  [][\A w \in Workers :
       /\ (workers[w].pc = "check" /\ heap[workers[w].task].cancelled
             /\ workers'[w] # workers[w])
            => /\ workers'[w] = IdleWorker
               /\ context' = context
               /\ workers[w].task \notin m_memIndex'
       /\ (workers[w].pc # "append" /\ workers'[w].pc = "append")
            => ~heap[workers[w].task].cancelled]_vars

\* a cancelled TileInfo whose task has been dequeued and has ended, with the
\* ticket released and nothing delivered for its tile
C11_Witness ==
  /\ poolState = "running"
  /\ \E id \in 1..Len(heap) :
       /\ heap[id].cancelled
       /\ id \notin m_memIndex
       /\ \A i \in 1..Len(m_tasks) : m_tasks[i] # id
       /\ \A w \in Workers : workers[w].task # id
       /\ \A f \in 1..MaxFeatures : <<heap[id].key, f>> \notin context

\* the outdated TileInfos of the last call: live before it, not live after it
OutdatedOfLast ==
  SeqToSet(last.prevTileInfos) \ SeqToSet(m_tileInfos)

\* C12 as stated: once an incremental update has signalled drop_tiles(K), a
\* task of a TileInfo cancelled by that update delivers no further feature.
C12_NoFeatureAfterDropTiles ==
  [][IncrementalCompleted =>
       \A w \in Workers :
         (workers[w].task \in CancelledByLast /\ workers[w].pc = "append")
           => context' = context]_vars

\* C12, amended: once an incremental update has signalled drop_tiles(K), every
\* outdated TileInfo is already cancelled and its key is in K, so the next
\* checkpoint of any of its tasks ends the task without an append; the only
\* feature that can still arrive for K is the one whose checkpoint the task
\* had passed before the cancellation.
C12_DropTilesAfterCancel ==
  [][IncrementalCompleted =>
       /\ \A id \in OutdatedOfLast :
            /\ heap[id].cancelled
            /\ heap[id].key \in SeqToSet(descr.dropTiles[1])
       /\ \A w \in Workers :
            (workers[w].task \in OutdatedOfLast /\ workers[w].pc = "check"
               /\ workers'[w] # workers[w])
              => workers'[w] = IdleWorker /\ context' = context]_vars

\* drop_tiles has been signalled while a task of an outdated TileInfo, dequeued
\* before the update, is about to reach its first checkpoint
C12_Witness ==
  /\ IncrementalCompleted
  /\ \E w \in Workers :
       /\ workers[w].task \in OutdatedOfLast
       /\ workers[w].pc = "check"
       /\ workers[w].fid = 1

\* C13: the first UpdateCoverage on a freshly constructed manager (the current
\* viewport is still the initial empty one, nothing was ever scheduled) with a
\* viewport that covers at least one tile takes the full-reset path: the
\* descriptor has received drop_all and nothing else, the live set holds one
\* TileInfo per enumerated tile, and the tasks of the pool are one per tile,
\* pushed to the back in tile order.
C13_FirstUpdateIsReset ==
  (/\ managerPc = "idle"
   /\ last.op \in {"noop", "reset", "incremental"}
   /\ last.prevViewport = EmptyViewport
   /\ last.prevHeap = <<>>
   /\ GetTileKeys(last.screen) # {})
    => /\ last.op = "reset"
       /\ descr.dropAll = 1
       /\ descr.dropTiles = <<>>
       /\ [i \in 1..Len(m_tileInfos) |-> heap[m_tileInfos[i]].key] = last.tiles
       /\ SeqToSet(last.tiles) = GetTileKeys(last.screen)
       /\ last.prevTasks = <<>>
       /\ last.pushedFront = <<>>
       /\ [i \in 1..Len(last.pushedBack) |-> heap[last.pushedBack[i]].key] = last.tiles
       /\ IsSuffix(m_tasks, last.pushedBack)

\* the first update has returned, with two tiles or more, before any worker
\* has taken a task
C13_Witness ==
  /\ managerPc = "idle"
  /\ last.op = "reset"
  /\ last.prevViewport = EmptyViewport
  /\ last.prevHeap = <<>>
  /\ Len(last.tiles) >= 2
  /\ m_tasks = last.pushedBack

\* C14: only the control thread writes the live set: a step of a worker (taking
\* a task, passing or ending at a checkpoint, delivering a feature, the
\* completion callback) leaves m_tileInfos as it was, so a tile whose task has
\* finished stays live.
C14_WorkersLeaveLiveSet ==
  [][workers' # workers => m_tileInfos' = m_tileInfos]_vars

\* a live, non-cancelled TileInfo whose only task has delivered its feature
\* and finished
C14_Witness ==
  \E i \in 1..Len(m_tileInfos) :
    LET id == m_tileInfos[i]
    IN /\ ~heap[id].cancelled
       /\ <<heap[id].key, MaxFeatures>> \in context
       /\ \A other \in 1..Len(heap) : heap[other].key = heap[id].key => other = id
       /\ \A k \in 1..Len(m_tasks) : m_tasks[k] # id
       /\ \A w \in Workers : workers[w].task # id

-----------------------------------------------------------------------------
(***************************************************************************)
(* Model of the staged feature decoder (FeatureType).                      *)
(*                                                                         *)
(* A feature record is a sequence of bytes; positions in it are offsets    *)
(* from its start, as CalcOffset computes them.  Points live on a line of  *)
(* integers.  ASSERTs are compiled out (release build); CHECKs abort.      *)
(***************************************************************************)

\* SharedLoadInfo::GetScalesCount: the scales of the container
GetScalesCount == 3

\* numeric_limits<uint32_t>::max(), written as the all-ones word
kInvalidOffset == 0 - 1

\* FeatureType::BEST_GEOMETRY and FeatureType::WORST_GEOMETRY
BEST_GEOMETRY == 0 - 1
WORST_GEOMETRY == 0 - 2

\* SharedLoadInfo::GetScale and GetLastScale of that container
GetScale(i) == 2 * i + 1
GetLastScale == GetScale(GetScalesCount - 1)

\* the scales a caller may ask for: both sentinels, every scale up to the last
\* one and one beyond it
RequestScales == WORST_GEOMETRY .. (GetLastScale + 1)

\* the first index i in from..n-1 with scale <= GetScale(i), or n
RECURSIVE FirstScaleNotLess(_, _, _)
FirstScaleNotLess(scale, from, n) ==
  IF from >= n THEN n
  ELSE IF scale <= GetScale(from) THEN from
  ELSE FirstScaleNotLess(scale, from + 1, n)

\* GetScaleIndex(loadInfo, scale)
GetScaleIndex(scaleArg) ==
  LET count == GetScalesCount
      scale == IF scaleArg > GetLastScale THEN GetLastScale ELSE scaleArg
  IN IF scale = WORST_GEOMETRY THEN 0
     ELSE IF scale = BEST_GEOMETRY THEN count - 1
     ELSE LET i == FirstScaleNotLess(scale, 0, count)
          IN IF i < count THEN i ELSE 0 - 1

\* variant of SkipInvalidDown that goes on down to the lowest valid offset
SkipInvalidDownToLowest(offsets, ind) ==
  IF \A i \in 0..ind : offsets[i + 1] = kInvalidOffset THEN 0 - 1
  ELSE CHOOSE i \in 0..ind :
         /\ offsets[i + 1] # kInvalidOffset
         /\ \A j \in 0..(i - 1) : offsets[j + 1] = kInvalidOffset

\* the loop of the BEST_GEOMETRY case: down from ind while the offset is invalid
RECURSIVE SkipInvalidDown(_, _)
SkipInvalidDown(offsets, ind) ==
  IF ind >= 0 /\ offsets[ind + 1] = kInvalidOffset
    THEN SkipInvalidDown(offsets, ind - 1)
    ELSE ind

\* variant of the WORST_GEOMETRY loop that stops at the highest index whose
\* offset is present
SkipInvalidUpToHighest(offsets, ind) ==
  LET present == { i \in ind..(Len(offsets) - 1) : offsets[i + 1] # kInvalidOffset }
  IN IF present = {} THEN Len(offsets)
     ELSE CHOOSE i \in present : \A k \in present : k <= i

\* the loop of the WORST_GEOMETRY case: up from ind while the offset is invalid
RECURSIVE SkipInvalidUp(_, _)
SkipInvalidUp(offsets, ind) ==
  IF ind < Len(offsets) /\ offsets[ind + 1] = kInvalidOffset
    THEN SkipInvalidUp(offsets, ind + 1)
    ELSE ind

\* variant of GetScaleIndexOffsets whose default case goes on to the next
\* scale when the offset of the first matching one is invalid
GetScaleIndexOffsetsSearching(scaleArg, offsets) ==
  LET count == Len(offsets)
      scale == IF scaleArg > GetLastScale THEN GetLastScale ELSE scaleArg
      ind == IF scale = BEST_GEOMETRY THEN SkipInvalidDown(offsets, count - 1)
             ELSE SkipInvalidUp(offsets, IF scale = WORST_GEOMETRY THEN 0
                                         ELSE FirstScaleNotLess(scale, 0, GetScalesCount))
  IN IF ind >= 0 /\ ind < count THEN ind ELSE 0 - 1

\* GetScaleIndex(loadInfo, scale, offsets); offsets has GetScalesCount entries
GetScaleIndexOffsets(scaleArg, offsets) ==
  LET count == Len(offsets)
      scale == IF scaleArg > GetLastScale THEN GetLastScale ELSE scaleArg
  IN IF scale = BEST_GEOMETRY
       THEN LET ind == SkipInvalidDown(offsets, count - 1)
            IN IF ind >= 0 /\ ind < count THEN ind ELSE 0 - 1
     ELSE IF scale = WORST_GEOMETRY
       THEN LET ind == SkipInvalidUp(offsets, 0)
            IN IF ind >= 0 /\ ind < count THEN ind ELSE 0 - 1
     ELSE LET i == FirstScaleNotLess(scale, 0, GetScalesCount)
          IN IF i < GetScalesCount
               THEN (IF offsets[i + 1] # kInvalidOffset THEN i ELSE 0 - 1)
               ELSE 0 - 1
-----------------------------------------------------------------------------
(* Readers of the record bytes *)

\* ReadVarUint<uint32_t>: 7 data bits per byte, low group first, the high bit
\* of a byte says that another byte follows
RECURSIVE ReadVarUint(_, _)
ReadVarUint(data, pos) ==
  LET byte == data[pos + 1]
  IN IF byte >= 128
       THEN LET rest == ReadVarUint(data, pos + 1)
            IN [value |-> (byte - 128) + 128 * rest.value, pos |-> rest.pos]
       ELSE [value |-> byte, pos |-> pos + 1]

\* BitSource::BitSource
BitSource(p) == [m_ptr |-> p, m_pos |-> 0]

\* variant of BitSource::Read that leaves the read position where it was
BitSourceReadNoAdvance(data, bits, count) ==
  [value |-> (data[bits.m_ptr + 1] \div Pow2(bits.m_pos)) % Pow2(count),
   bits |-> bits]

\* BitSource::Read: count bits of the current byte, lowest unread bit first
BitSourceRead(data, bits, count) ==
  LET v == (data[bits.m_ptr + 1] \div Pow2(bits.m_pos)) % Pow2(count)
      pos == bits.m_pos + count
  IN [value |-> v,
      bits |-> IF pos >= 8 THEN [m_ptr |-> bits.m_ptr + 1, m_pos |-> 0]
               ELSE [m_ptr |-> bits.m_ptr, m_pos |-> pos]]

\* BitSource::RoundPtr
RoundPtr(bits) == IF bits.m_pos > 0 THEN bits.m_ptr + 1 ELSE bits.m_ptr

\* the loop of ReadOffsets; overrun records a store at an index past the table
RECURSIVE ReadOffsetsLoop(_, _, _, _, _, _)
ReadOffsetsLoop(data, pos, mask, ind, offsets, overrun) ==
  IF mask = 0 THEN [offsets |-> offsets, pos |-> pos, overrun |-> overrun]
  ELSE IF mask % 2 = 1
    THEN LET v == ReadVarUint(data, pos)
         IN IF ind < Len(offsets)
              THEN ReadOffsetsLoop(data, v.pos, mask \div 2, ind + 1,
                                   [offsets EXCEPT ![ind + 1] = v.value], overrun)
              ELSE ReadOffsetsLoop(data, v.pos, mask \div 2, ind + 1, offsets, TRUE)
  ELSE ReadOffsetsLoop(data, pos, mask \div 2, ind + 1, offsets, overrun)

\* ReadOffsets: the table gets GetScalesCount invalid entries, then one varint
\* per set bit of the mask
ReadOffsets(data, pos, mask) ==
  ReadOffsetsLoop(data, pos, mask, 0, [i \in 1..GetScalesCount |-> kInvalidOffset], FALSE)

-----------------------------------------------------------------------------
(* The record header, the classificator, the geometry coding *)

\* header byte: bits 0-1 hold the geometry type
HEADER_MASK_GEOMTYPE == 3
HeaderGeomTypePoint == 0
HeaderGeomTypeLine == 1
HeaderGeomTypeArea == 2

\* Header(data)
Header(data) == data[1]

\* FeatureType::GetGeomType on the header bits
HeaderGeomType(header) ==
  LET t == header % (HEADER_MASK_GEOMTYPE + 1)
  IN IF t = HeaderGeomTypeLine THEN HeaderGeomTypeLine
     ELSE IF t = HeaderGeomTypeArea THEN HeaderGeomTypeArea
     ELSE HeaderGeomTypePoint

\* feature::kMaxTypesCount and FeatureType::GetTypesCount: header bits 2-4
\* hold the count less one
kMaxTypesCount == 8
GetTypesCount(header) == ((header \div 4) % kMaxTypesCount) + 1

\* header bit 5: the record has a layer; header bit 6: it has a name
HasLayer(header) == (header \div 32) % 2 = 1
HasName(header) == (header \div 64) % 2 = 1

\* CalculateHeader: the header byte of a feature that has no record
CalculateHeader(typesCount, headerGeomType, params) ==
  headerGeomType + 4 * (typesCount - 1)
    + (IF params.layer # 0 THEN 32 ELSE 0) + (IF params.name # <<>> THEN 64 ELSE 0)

\* Classificator::GetTypeForIndex: 0 for an index the classificator does not know
KnownTypes == 2
GetTypeForIndex(index) == IF index < KnownTypes THEN index + 1 ELSE 0

\* Classificator::GetStubType
GetStubType == KnownTypes + 1

\* base point of the container's default geometry coding params
DefBasePoint == 10

\* serial::LoadPoint: a varint delta added to the base point
LoadPoint(data, pos, base) ==
  LET v == ReadVarUint(data, pos)
  IN [point |-> base + v.value, pos |-> v.pos]

\* serial::LoadInnerPath and LoadInnerTriangles: count points, each a delta to
\* the one before it
RECURSIVE LoadInnerPath(_, _, _, _)
LoadInnerPath(data, pos, count, base) ==
  IF count = 0 THEN [points |-> <<>>, pos |-> pos]
  ELSE LET p == LoadPoint(data, pos, base)
           rest == LoadInnerPath(data, p.pos, count - 1, p.point)
       IN [points |-> <<p.point>> \o rest.points, pos |-> rest.pos]

\* serial::LoadOuterPath and LoadOuterTriangles: a varint count, then that many
\* delta-coded points
LoadOuterPath(stream, pos, base) ==
  LET n == ReadVarUint(stream, pos)
  IN LoadInnerPath(stream, n.pos, n.value, base)

\* SharedLoadInfo::GetGeometryReader(ind): the geometry stream of level ind
\* holds the bytes of another feature up to offset ind + 2 and there a path
\* of ind + 1 points
GetGeometryReader(ind) ==
  [i \in 1..(ind + 2) |-> 7] \o <<ind + 1>> \o [i \in 1..(ind + 1) |-> 1]

\* SharedLoadInfo::GetTrianglesReader(ind): likewise, a strip of ind + 3 points
GetTrianglesReader(ind) ==
  [i \in 1..(ind + 2) |-> 7] \o <<ind + 3>> \o [i \in 1..(ind + 3) |-> 2]

\* FeatureParams::Read: a length-prefixed name if the header has one, then a
\* layer byte if the header has one
ParamsRead(data, pos, header) ==
  LET len == IF HasName(header) THEN ReadVarUint(data, pos) ELSE [value |-> 0, pos |-> pos]
      name == SubSeq(data, len.pos + 1, len.pos + len.value)
      afterName == len.pos + len.value
  IN [params |-> [name |-> name, house |-> <<>>,
                  layer |-> IF HasLayer(header) THEN data[afterName + 1] ELSE 0,
                  rank |-> 0, ref |-> <<>>],
      pos |-> IF HasLayer(header) THEN afterName + 1 ELSE afterName]

\* m2::RectD(): the empty rectangle; Add and feature::CalcRect
EmptyRect == [lo |-> 1, hi |-> 0]
RectAdd(rect, p) ==
  IF rect.lo > rect.hi THEN [lo |-> p, hi |-> p]
  ELSE [lo |-> IF p < rect.lo THEN p ELSE rect.lo, hi |-> IF p > rect.hi THEN p ELSE rect.hi]
RECURSIVE CalcRect(_, _)
CalcRect(points, rect) ==
  IF points = <<>> THEN rect
  ELSE CalcRect(Tail(points), RectAdd(rect, Head(points)))
-----------------------------------------------------------------------------
(* The FeatureType object *)

\* the members of a FeatureType before any constructor body has run
BlankFeature ==
  [status |-> "ok",          \* "ok" | "dead" (a CHECK failed) | "undefined"
   m_loadInfo |-> FALSE,     \* whether m_loadInfo points to the container
   m_metadataDeserializer |-> "null",   \* "null" | "readable" | "unreadable"
   m_data |-> <<>>,
   m_header |-> 0,
   m_id |-> 0,
   m_types |-> [i \in 1..kMaxTypesCount |-> 0],
   m_params |-> [name |-> <<>>, house |-> <<>>, layer |-> 0, rank |-> 0, ref |-> <<>>],
   m_center |-> 0,
   m_limitRect |-> EmptyRect,
   m_points |-> <<>>,
   m_triangles |-> <<>>,
   m_offsets |-> [m_common |-> 0, m_header2 |-> 0, m_pts |-> <<>>, m_trg |-> <<>>],
   m_ptsSimpMask |-> 0,
   m_innerStats |-> [m_points |-> 0, m_strips |-> 0, m_size |-> 0],
   m_metadata |-> <<>>,
   m_metaIds |-> <<>>,
   m_parsed |-> [m_types |-> FALSE, m_common |-> FALSE, m_header2 |-> FALSE,
                 m_points |-> FALSE, m_triangles |-> FALSE,
                 m_metadata |-> FALSE, m_metaIds |-> FALSE]]

\* a failed CHECK aborts the process: the object is never used again
Dead(f) == [f EXCEPT !.status = "dead"]

\* FeatureType::FeatureType(loadInfo, buffer, metadataDeserializer)
FeatureFromBuffer(loadInfo, buffer, metadataDeserializer, id) ==
  LET f == [BlankFeature EXCEPT !.m_loadInfo = loadInfo, !.m_data = buffer,
                                !.m_metadataDeserializer = metadataDeserializer,
                                !.m_id = id]
  IN IF ~(loadInfo /\ metadataDeserializer # "null")
       THEN Dead(f)
       ELSE [f EXCEPT !.m_header = Header(buffer)]

\* FeatureType::FeatureType(osm::MapObject const & emo)
FeatureFromMapObject(emo) ==
  LET params == [BlankFeature.m_params EXCEPT !.name = emo.name, !.house = emo.house]
      n == Len(emo.types)
  IN [BlankFeature EXCEPT
        !.m_center = IF emo.geomType = HeaderGeomTypePoint THEN emo.mercator ELSE @,
        !.m_points = IF emo.geomType = HeaderGeomTypeLine THEN emo.points ELSE @,
        !.m_triangles = IF emo.geomType = HeaderGeomTypeArea THEN emo.triangles ELSE @,
        !.m_limitRect =
           IF emo.geomType = HeaderGeomTypePoint THEN RectAdd(EmptyRect, emo.mercator)
           ELSE IF emo.geomType = HeaderGeomTypeLine THEN CalcRect(emo.points, EmptyRect)
           ELSE CalcRect(emo.triangles, EmptyRect),
        !.m_params = params,
        !.m_metadata = emo.metadata,
        !.m_types = [i \in 1..kMaxTypesCount |-> IF i <= n THEN emo.types[i] ELSE 0],
        !.m_header = CalculateHeader(n, emo.geomType, params),
        !.m_id = emo.id,
        !.m_parsed = [m_types |-> TRUE, m_common |-> TRUE, m_header2 |-> TRUE,
                      m_points |-> TRUE, m_triangles |-> TRUE,
                      m_metadata |-> TRUE, m_metaIds |-> TRUE]]

\* variant of the loop of ParseTypes that leaves the slot of an index the
\* classificator does not know empty
RECURSIVE ReadTypesDropUnknown(_, _, _, _, _)
ReadTypesDropUnknown(data, pos, i, count, types) ==
  IF i >= count THEN [types |-> types, pos |-> pos]
  ELSE LET index == ReadVarUint(data, pos)
           type == GetTypeForIndex(index.value)
       IN ReadTypesDropUnknown(data, index.pos, i + 1, count,
                               [types EXCEPT ![i + 1] = IF type > 0 THEN type ELSE @])

\* the loop of ParseTypes: slot i gets the type of the i-th index, or the stub
RECURSIVE ReadTypes(_, _, _, _, _)
ReadTypes(data, pos, i, count, types) ==
  IF i >= count THEN [types |-> types, pos |-> pos]
  ELSE LET index == ReadVarUint(data, pos)
           type == GetTypeForIndex(index.value)
       IN ReadTypes(data, index.pos, i + 1, count,
                    [types EXCEPT ![i + 1] = IF type > 0 THEN type ELSE GetStubType])

\* FeatureType::ParseTypes
ParseTypes(f) ==
  IF f.m_parsed.m_types THEN f
  ELSE LET r == ReadTypes(f.m_data, 1, 0, GetTypesCount(f.m_header), f.m_types)
       IN [f EXCEPT !.m_types = r.types, !.m_offsets.m_common = r.pos,
                    !.m_parsed.m_types = TRUE]

\* FeatureType::ParseCommon after its call of ParseTypes, which gave t
ParseCommonFrom(t) ==
  LET r == ParamsRead(t.m_data, t.m_offsets.m_common, Header(t.m_data))
      isPoint == HeaderGeomType(t.m_header) = HeaderGeomTypePoint
      p == LoadPoint(t.m_data, r.pos, DefBasePoint)
  IN [t EXCEPT !.m_params = r.params,
               !.m_center = IF isPoint THEN p.point ELSE @,
               !.m_limitRect = IF isPoint THEN RectAdd(@, p.point) ELSE @,
               !.m_offsets.m_header2 = IF isPoint THEN p.pos ELSE r.pos,
               !.m_parsed.m_common = TRUE]

\* FeatureType::ParseCommon
ParseCommon(f) ==
  IF f.m_parsed.m_common THEN f
  ELSE IF ~f.m_loadInfo THEN Dead(f)
  ELSE ParseCommonFrom(ParseTypes(f))

\* the loop that collects the simplification-mask bytes of an inner line,
\* one ReadByte each
RECURSIVE ReadSimpMask(_, _, _, _, _)
ReadSimpMask(data, pos, i, count, simpMask) ==
  IF i >= count THEN [mask |-> simpMask, pos |-> pos]
  ELSE ReadSimpMask(data, pos + 1, i + 1, count,
                    simpMask + data[pos + 1] * Pow2(8 * i))

\* FeatureType::ParseHeader2 after its call of ParseCommon, which gave c; a
\* store of ReadOffsets past the table leaves the result with status "undefined"
ParseHeader2From(c) ==
  LET data == c.m_data
      type == HeaderGeomType(Header(data))
      bits0 == BitSource(c.m_offsets.m_header2)
      count4 == BitSourceRead(data, bits0, 4)
      mask4 == BitSourceRead(data, count4.bits, 4)
      ptsCount == IF type = HeaderGeomTypeLine THEN count4.value ELSE 0
      trgCount == IF type = HeaderGeomTypeArea THEN count4.value ELSE 0
      bits == IF type = HeaderGeomTypePoint THEN bits0
              ELSE IF count4.value = 0 THEN mask4.bits ELSE count4.bits
      src == RoundPtr(bits)
  IN IF type = HeaderGeomTypeLine /\ ptsCount > 0
       THEN LET count == ((ptsCount - 2) + 4 - 1) \div 4
                simp == ReadSimpMask(data, src, 0, count, c.m_ptsSimpMask)
                path == LoadInnerPath(data, simp.pos, ptsCount, DefBasePoint)
            IN [c EXCEPT !.m_ptsSimpMask = simp.mask,
                         !.m_points = @ \o path.points,
                         !.m_innerStats.m_points = path.pos - simp.pos,
                         !.m_innerStats.m_size = path.pos,
                         !.m_parsed.m_header2 = TRUE]
     ELSE IF type = HeaderGeomTypeLine
       THEN LET first == LoadPoint(data, src, DefBasePoint)
                read == ReadOffsets(data, first.pos, mask4.value)
            IN [c EXCEPT !.m_points = Append(@, first.point),
                         !.m_offsets.m_pts = read.offsets,
                         !.m_innerStats.m_size = read.pos,
                         !.m_parsed.m_header2 = TRUE,
                         !.status = IF read.overrun THEN "undefined" ELSE @]
     ELSE IF type = HeaderGeomTypeArea /\ trgCount > 0
       THEN LET strip == LoadInnerPath(data, src, trgCount + 2, DefBasePoint)
            IN [c EXCEPT !.m_triangles = @ \o strip.points,
                         !.m_innerStats.m_strips = strip.pos - src,
                         !.m_innerStats.m_size = strip.pos,
                         !.m_parsed.m_header2 = TRUE]
     ELSE IF type = HeaderGeomTypeArea
       THEN LET read == ReadOffsets(data, src, mask4.value)
            IN [c EXCEPT !.m_offsets.m_trg = read.offsets,
                         !.m_innerStats.m_size = read.pos,
                         !.m_parsed.m_header2 = TRUE,
                         !.status = IF read.overrun THEN "undefined" ELSE @]
     ELSE [c EXCEPT !.m_innerStats.m_size = src, !.m_parsed.m_header2 = TRUE]

\* FeatureType::ParseHeader2 past its guard
ParseHeader2Body(f) ==
  IF ~f.m_loadInfo THEN Dead(f) ELSE ParseHeader2From(ParseCommon(f))

\* variant of ParseHeader2 that parses again when the header2 flag is set
ParseHeader2Unguarded(f) ==
  ParseHeader2Body(f)

\* FeatureType::ParseHeader2
ParseHeader2(f) ==
  IF f.m_parsed.m_header2 THEN f ELSE ParseHeader2Body(f)

\* variant of ResetGeometry that leaves the parsed flags as they are
ResetGeometryKeepFlags(f) ==
  IF ~f.m_loadInfo THEN f
  ELSE [f EXCEPT !.m_points = <<>>, !.m_triangles = <<>>,
                 !.m_limitRect = IF HeaderGeomType(f.m_header) # HeaderGeomTypePoint
                                   THEN EmptyRect ELSE @,
                 !.m_offsets.m_pts = <<>>, !.m_offsets.m_trg = <<>>,
                 !.m_ptsSimpMask = 0]

\* variant of ResetGeometry that rolls the common stage back as well
ResetGeometryAlsoCommon(f) ==
  IF ~f.m_loadInfo THEN f
  ELSE [ResetGeometryKeepFlags(f) EXCEPT
          !.m_parsed.m_common = FALSE, !.m_parsed.m_header2 = FALSE,
          !.m_parsed.m_points = FALSE, !.m_parsed.m_triangles = FALSE]

\* variant of ResetGeometry that leaves the simplification mask and the points
ResetGeometryKeepPoints(f) ==
  IF ~f.m_loadInfo THEN f
  ELSE [f EXCEPT !.m_triangles = <<>>,
                 !.m_limitRect = IF HeaderGeomType(f.m_header) # HeaderGeomTypePoint
                                   THEN EmptyRect ELSE @,
                 !.m_parsed.m_header2 = FALSE, !.m_parsed.m_points = FALSE,
                 !.m_parsed.m_triangles = FALSE,
                 !.m_offsets.m_pts = <<>>, !.m_offsets.m_trg = <<>>]

\* FeatureType::ResetGeometry
ResetGeometry(f) ==
  IF ~f.m_loadInfo THEN f
  ELSE [f EXCEPT !.m_points = <<>>, !.m_triangles = <<>>,
                 !.m_limitRect = IF HeaderGeomType(f.m_header) # HeaderGeomTypePoint
                                   THEN EmptyRect ELSE @,
                 !.m_parsed.m_header2 = FALSE, !.m_parsed.m_points = FALSE,
                 !.m_parsed.m_triangles = FALSE,
                 !.m_offsets.m_pts = <<>>, !.m_offsets.m_trg = <<>>,
                 !.m_ptsSimpMask = 0]

\* the 2-bit marker of point i (1 <= i < count - 1) of an inner line
PointScale(simpMask, i) == (simpMask \div Pow2(2 * (i - 1))) % 4

\* variant of the filter loop that keeps a point only when its marker is
\* below the scale index
RECURSIVE FilterInnerStrict(_, _, _, _, _, _)
FilterInnerStrict(mpoints, simpMask, scaleIndex, i, points, minScale) ==
  IF i + 1 >= Len(mpoints) THEN [points |-> points, minScale |-> minScale]
  ELSE LET pointScale == PointScale(simpMask, i)
       IN IF pointScale < scaleIndex
            THEN FilterInnerStrict(mpoints, simpMask, scaleIndex, i + 1,
                                   Append(points, mpoints[i + 1]), minScale)
          ELSE IF Len(points) = 1 /\ minScale > pointScale
            THEN FilterInnerStrict(mpoints, simpMask, scaleIndex, i + 1, points, pointScale)
          ELSE FilterInnerStrict(mpoints, simpMask, scaleIndex, i + 1, points, minScale)

\* first filter loop of ParseGeometry over the intermediate points i..count-2
RECURSIVE FilterInner(_, _, _, _, _, _)
FilterInner(mpoints, simpMask, scaleIndex, i, points, minScale) ==
  IF i + 1 >= Len(mpoints) THEN [points |-> points, minScale |-> minScale]
  ELSE LET pointScale == PointScale(simpMask, i)
       IN IF pointScale <= scaleIndex
            THEN FilterInner(mpoints, simpMask, scaleIndex, i + 1,
                             Append(points, mpoints[i + 1]), minScale)
          ELSE IF Len(points) = 1 /\ minScale > pointScale
            THEN FilterInner(mpoints, simpMask, scaleIndex, i + 1, points, pointScale)
          ELSE FilterInner(mpoints, simpMask, scaleIndex, i + 1, points, minScale)

\* fallback loop of ParseGeometry: the intermediates whose marker is minScale
RECURSIVE FallbackInner(_, _, _, _, _)
FallbackInner(mpoints, simpMask, minScale, i, points) ==
  IF i + 1 >= Len(mpoints) THEN points
  ELSE FallbackInner(mpoints, simpMask, minScale, i + 1,
                     IF PointScale(simpMask, i) = minScale
                       THEN Append(points, mpoints[i + 1]) ELSE points)

\* no lookup of a scale index was made
NoLookup == 0 - 2

\* FeatureType::ParseGeometry after its call of ParseHeader2, which gave h
ParseGeometryFrom(h, scale) ==
  LET count == Len(h.m_points)
  IN IF HeaderGeomType(Header(h.m_data)) # HeaderGeomTypeLine
       THEN [feature |-> [h EXCEPT !.m_parsed.m_points = TRUE],
             sz |-> 0, ind |-> NoLookup]
     ELSE IF count < 2
       THEN LET first == GetScaleIndexOffsets(scale, h.m_offsets.m_pts)
                ind == IF first = 0 - 1
                         THEN GetScaleIndexOffsets(WORST_GEOMETRY, h.m_offsets.m_pts)
                         ELSE first
                path == LoadOuterPath(GetGeometryReader(ind), h.m_offsets.m_pts[ind + 1],
                                      h.m_points[1])
                points == IF ind # 0 - 1 THEN h.m_points \o path.points ELSE h.m_points
            IN [feature |-> [h EXCEPT !.m_points = points,
                                      !.m_limitRect = CalcRect(points, @),
                                      !.m_parsed.m_points = TRUE],
                sz |-> IF ind # 0 - 1 THEN path.pos - h.m_offsets.m_pts[ind + 1] ELSE 0,
                ind |-> first]
     ELSE LET scaleIndex == GetScaleIndex(scale)
              filtered == FilterInner(h.m_points, h.m_ptsSimpMask, scaleIndex, 1,
                                      <<h.m_points[1]>>, GetScalesCount - 1)
              kept == IF Len(filtered.points) = 1
                        THEN FallbackInner(h.m_points, h.m_ptsSimpMask,
                                           filtered.minScale, 1, filtered.points)
                        ELSE filtered.points
              points == Append(kept, h.m_points[count])
          IN [feature |-> [h EXCEPT !.m_points = points,
                                    !.m_limitRect = CalcRect(points, @),
                                    !.m_parsed.m_points = TRUE],
              sz |-> 0, ind |-> NoLookup]

\* variant of ParseGeometry that sets its flag without calling ParseHeader2
ParseGeometryNoHeader2(f, scale) ==
  [feature |-> [f EXCEPT !.m_parsed.m_points = TRUE], sz |-> 0, ind |-> NoLookup]

\* variant of ParseGeometry that parses again when the points flag is set
ParseGeometryUnguarded(f, scale) ==
  IF ~f.m_loadInfo THEN [feature |-> Dead(f), sz |-> 0, ind |-> NoLookup]
  ELSE ParseGeometryFrom(ParseHeader2(f), scale)

\* FeatureType::ParseGeometry: the feature after the call, the size returned
\* and the index the first offset lookup gave
ParseGeometry(f, scale) ==
  IF f.m_parsed.m_points THEN [feature |-> f, sz |-> 0, ind |-> NoLookup]
  ELSE IF ~f.m_loadInfo THEN [feature |-> Dead(f), sz |-> 0, ind |-> NoLookup]
  ELSE ParseGeometryFrom(ParseHeader2(f), scale)

\* FeatureType::ParseTriangles after its call of ParseHeader2, which gave h
ParseTrianglesFrom(h, scale) ==
  IF HeaderGeomType(Header(h.m_data)) # HeaderGeomTypeArea
       THEN [feature |-> [h EXCEPT !.m_parsed.m_triangles = TRUE],
             sz |-> 0, ind |-> NoLookup]
     ELSE IF h.m_triangles = <<>>
       THEN LET ind == GetScaleIndexOffsets(scale, h.m_offsets.m_trg)
                strip == LoadOuterPath(GetTrianglesReader(ind), h.m_offsets.m_trg[ind + 1],
                                       DefBasePoint)
                triangles == IF ind # 0 - 1 THEN strip.points ELSE <<>>
            IN [feature |-> [h EXCEPT !.m_triangles = triangles,
                                      !.m_limitRect = CalcRect(triangles, @),
                                      !.m_parsed.m_triangles = TRUE],
                sz |-> IF ind # 0 - 1 THEN strip.pos - h.m_offsets.m_trg[ind + 1] ELSE 0,
                ind |-> ind]
     ELSE [feature |-> [h EXCEPT !.m_limitRect = CalcRect(h.m_triangles, @),
                                 !.m_parsed.m_triangles = TRUE],
           sz |-> 0, ind |-> NoLookup]

\* FeatureType::ParseTriangles: same shape of result as ParseGeometry
ParseTriangles(f, scale) ==
  IF f.m_parsed.m_triangles THEN [feature |-> f, sz |-> 0, ind |-> NoLookup]
  ELSE IF ~f.m_loadInfo THEN [feature |-> Dead(f), sz |-> 0, ind |-> NoLookup]
  ELSE ParseTrianglesFrom(ParseHeader2(f), scale)

\* MetadataDeserializer::Get and GetIds: what the container stores for a feature
StoredMetadata(id) == <<[type |-> 1, value |-> id]>>
StoredMetaIds(id) == <<[type |-> 1, metaId |-> id + 1]>>

\* variant of ParseMetadata that sets its flag only after a successful read
ParseMetadataRetry(f) ==
  IF f.m_parsed.m_metadata THEN f
  ELSE IF ~f.m_loadInfo THEN Dead(f)
  ELSE IF f.m_metadataDeserializer = "readable"
    THEN [f EXCEPT !.m_metadata = StoredMetadata(f.m_id), !.m_parsed.m_metadata = TRUE]
  ELSE f

\* FeatureType::ParseMetadata; an unreadable section makes Get throw, the
\* exception is logged and dropped
ParseMetadata(f) ==
  IF f.m_parsed.m_metadata THEN f
  ELSE IF ~f.m_loadInfo THEN Dead(f)
  ELSE [f EXCEPT !.m_metadata = IF f.m_metadataDeserializer = "readable"
                                  THEN StoredMetadata(f.m_id) ELSE @,
                 !.m_parsed.m_metadata = TRUE]

\* variant of ParseMetaIds without the check of the load-info
ParseMetaIdsUnchecked(f) ==
  IF f.m_parsed.m_metaIds THEN f
  ELSE [f EXCEPT !.m_metaIds = IF f.m_metadataDeserializer = "readable"
                                 THEN StoredMetaIds(f.m_id) ELSE @,
                 !.m_parsed.m_metaIds = TRUE]

\* FeatureType::ParseMetaIds
ParseMetaIds(f) ==
  IF f.m_parsed.m_metaIds THEN f
  ELSE IF ~f.m_loadInfo THEN Dead(f)
  ELSE [f EXCEPT !.m_metaIds = IF f.m_metadataDeserializer = "readable"
                                 THEN StoredMetaIds(f.m_id) ELSE @,
                 !.m_parsed.m_metaIds = TRUE]
-----------------------------------------------------------------------------
(* The feature records and MapObjects the decoder is run on *)

\* the records of the container.  A record is its header byte, its type
\* indices, its common section and its geometry part.  plain: one known type,
\* no name, no layer; rich: two types, the second index (130, a two-byte
\* varint) unknown to the classificator, a two-byte name and layer 3.
\* Geometry parts: a point; inner lines of 2, 4 and 5 points (count, marker
\* byte, one delta per point; the 4-point lines carry every 2-bit marker, 3
\* included) and of 3 and 6 to 15 points whose intermediate i has marker
\* i mod 3, four markers to a byte; outer lines (zero count and presence
\* mask, first point, the offset k + 2 for every set mask bit k, lowest bit
\* first) for every non-zero mask; inner areas of 1 and 2 triangles; outer
\* areas for every non-zero mask.
Records ==
  LET plain(type) == <<type, 0>>
      rich(type) == <<type + 4 + 32 + 64, 1, 130, 1, 2, 65, 66, 3>>
      bitCount(mask) == (mask % 2) + ((mask \div 2) % 2) + ((mask \div 4) % 2)
                          + ((mask \div 8) % 2)
      bitAt(mask, j) == CHOOSE k \in 0..3 :
                          /\ (mask \div Pow2(k)) % 2 = 1
                          /\ bitCount(mask % Pow2(k)) = j - 1
      offsets(mask) == [j \in 1..bitCount(mask) |-> bitAt(mask, j) + 2]
      markerByte(n, j) == LET m(i) == IF i <= n - 2 THEN i % 3 ELSE 0
                          IN m(4 * j + 1) + 4 * m(4 * j + 2) + 16 * m(4 * j + 3)
                               + 64 * m(4 * j + 4)
      longLine(n) == <<n>> \o [j \in 1..((n + 1) \div 4) |-> markerByte(n, j - 1)]
                       \o [i \in 1..n |-> 1]
      point == {<<5>>}
      innerLine ==
        {<<2, 1, 1>>}
          \cup { <<4, m1 + 4 * m2, 1, 1, 1, 1>> : m1 \in 0..3, m2 \in {0, 2, 3} }
          \cup { <<5, m1 + 4 * m2 + 16 * m3, 1, 1, 1, 1, 1>> :
                   m1 \in {1, 2}, m2 \in {1, 2}, m3 \in {0, 2} }
          \cup { longLine(n) : n \in {3} \cup 6..15 }
      outerLine == { <<16 * mask, 3>> \o offsets(mask) : mask \in 1..15 }
      innerArea == { <<1, 1, 1, 1>>, <<2, 1, 2, 1, 2>> }
      outerArea == { <<16 * mask>> \o offsets(mask) : mask \in 1..15 }
  IN { plain(HeaderGeomTypePoint) \o g : g \in point }
       \cup { rich(HeaderGeomTypePoint) \o g : g \in point }
       \cup { plain(HeaderGeomTypeLine) \o g : g \in innerLine \cup outerLine }
       \cup { rich(HeaderGeomTypeLine) \o <<16 * 5, 3>> \o offsets(5) }
       \cup { plain(HeaderGeomTypeArea) \o g : g \in innerArea \cup outerArea }
       \cup { rich(HeaderGeomTypeArea) \o <<16 * 6>> \o offsets(6) }

\* edited map objects: a point, a line and an area
MapObjects ==
  { [geomType |-> HeaderGeomTypePoint, mercator |-> 12, points |-> <<>>, triangles |-> <<>>,
     name |-> <<65>>, house |-> <<49>>, types |-> <<1>>, metadata |-> StoredMetadata(7), id |-> 7],
    [geomType |-> HeaderGeomTypeLine, mercator |-> 0, points |-> <<11, 12, 14>>, triangles |-> <<>>,
     name |-> <<>>, house |-> <<>>, types |-> <<1, 2>>, metadata |-> <<>>, id |-> 8],
    [geomType |-> HeaderGeomTypeArea, mercator |-> 0, points |-> <<>>, triangles |-> <<11, 13, 12>>,
     name |-> <<66>>, house |-> <<>>, types |-> <<2>>, metadata |-> <<>>, id |-> 9] }

\* the features as constructed: from a record of the container (whose metadata
\* section may or may not be readable), from a record without a container,
\* from a MapObject
Features ==
  { FeatureFromBuffer(TRUE, r, "readable", 1) : r \in Records }
    \cup { FeatureFromBuffer(TRUE, r, "unreadable", 2) : r \in { q \in Records : Len(q) <= 4 } }
    \cup { FeatureFromBuffer(FALSE, r, "readable", 3) : r \in { q \in Records : Len(q) <= 3 } }
    \cup { FeatureFromMapObject(emo) : emo \in MapObjects }

-----------------------------------------------------------------------------
(* Calls on the feature *)

\* what a call leaves behind: after undefined behaviour either the process is
\* gone or the stray store went unnoticed
Outcomes(f, result) ==
  IF result.status = "undefined" THEN {Dead(f), [result EXCEPT !.status = "ok"]}
  ELSE {result}

\* the parsed flag that guards a stage operation
StageFlag(f, op) ==
  CASE op = "ParseTypes" -> f.m_parsed.m_types
    [] op = "ParseCommon" -> f.m_parsed.m_common
    [] op = "ParseHeader2" -> f.m_parsed.m_header2
    [] op = "ParseGeometry" -> f.m_parsed.m_points
    [] op = "ParseTriangles" -> f.m_parsed.m_triangles
    [] op = "ParseMetadata" -> f.m_parsed.m_metadata
    [] op = "ParseMetaIds" -> f.m_parsed.m_metaIds
    [] OTHER -> FALSE

\* a call of op on the feature with result r; lastCall keeps the operation, its
\* scale argument, whether its flag was already set, what it returned, and
\* whether it is a ResetGeometry of parsed points ("made") or the call that
\* follows one ("before")
Call(op, scale, r) ==
  /\ feature.status = "ok"
  /\ feature' \in Outcomes(feature, r.feature)
  /\ lastCall' = [op |-> op, scale |-> scale, again |-> StageFlag(feature, op),
                  sz |-> r.sz, ind |-> r.ind,
                  reset |-> IF op = "ResetGeometry" /\ feature.m_parsed.m_points
                              THEN "made"
                            ELSE IF lastCall.reset = "made" THEN "before"
                            ELSE "none"]
  /\ UNCHANGED <<managerVars, playerVars, matcherVars>>

Returned(f) == [feature |-> f, sz |-> 0, ind |-> NoLookup]

CallParseTypes == Call("ParseTypes", 0, Returned(ParseTypes(feature)))

CallParseCommon == Call("ParseCommon", 0, Returned(ParseCommon(feature)))

CallParseHeader2 == Call("ParseHeader2", 0, Returned(ParseHeader2(feature)))

CallParseGeometry(scale) == Call("ParseGeometry", scale, ParseGeometry(feature, scale))

CallParseTriangles(scale) == Call("ParseTriangles", scale, ParseTriangles(feature, scale))

CallParseMetadata == Call("ParseMetadata", 0, Returned(ParseMetadata(feature)))

CallParseMetaIds == Call("ParseMetaIds", 0, Returned(ParseMetaIds(feature)))

CallResetGeometry == Call("ResetGeometry", 0, Returned(ResetGeometry(feature)))

InitFeature ==
  /\ ManagerInit
  /\ feature \in Features
  /\ lastCall = NoCall
  /\ PlayerInit
  /\ matcher = NoMatcher

NextFeature ==
  \/ CallParseTypes
  \/ CallParseCommon
  \/ CallParseHeader2
  \/ \E scale \in RequestScales : CallParseGeometry(scale)
  \/ \E scale \in RequestScales : CallParseTriangles(scale)
  \/ CallParseMetadata
  \/ CallParseMetaIds
  \/ CallResetGeometry

SpecFeature == InitFeature /\ [][NextFeature]_vars

-----------------------------------------------------------------------------
(* Properties of the decoder *)

StageOps ==
  {"ParseTypes", "ParseCommon", "ParseHeader2", "ParseGeometry", "ParseTriangles",
   "ParseMetadata", "ParseMetaIds"}

\* C15: a stage operation called when its parsed flag is already set changes
\* no field of the feature; in particular ParseGeometry(s) called right after
\* ParseGeometry(s) leaves the point sequence as the first call made it.
C15_StagesIdempotent ==
  [][/\ (lastCall'.op \in StageOps /\ StageFlag(feature, lastCall'.op))
          => feature' = feature
     /\ (lastCall.op = "ParseGeometry" /\ lastCall'.op = "ParseGeometry"
           /\ lastCall'.scale = lastCall.scale)
          => feature'.m_points = feature.m_points]_vars

\* ParseGeometry was called again, with the scale of the first call, on an
\* inner line that the first call had filtered
C15_Witness ==
  /\ lastCall.op = "ParseGeometry"
  /\ lastCall.again
  /\ feature.status = "ok"
  /\ feature.m_loadInfo
  /\ HeaderGeomType(feature.m_header) = HeaderGeomTypeLine
  /\ feature.m_offsets.m_pts = <<>>
  /\ Len(feature.m_points) = 3
  /\ feature.m_innerStats.m_points = 5

\* C16: in every state of a feature, built from a record or from a MapObject,
\* the parsed flags respect the stage order: points implies header2, triangles
\* implies header2, header2 implies common, common implies types.
C16_StageOrder ==
  /\ feature.m_parsed.m_points => feature.m_parsed.m_header2
  /\ feature.m_parsed.m_triangles => feature.m_parsed.m_header2
  /\ feature.m_parsed.m_header2 => feature.m_parsed.m_common
  /\ feature.m_parsed.m_common => feature.m_parsed.m_types

\* ParseGeometry, called with the points flag clear on a record feature whose
\* metadata was read before, has run the stages below it
C16_Witness ==
  /\ lastCall.op = "ParseGeometry"
  /\ ~lastCall.again
  /\ feature.m_loadInfo
  /\ feature.m_parsed.m_points
  /\ feature.m_parsed.m_header2
  /\ ~feature.m_parsed.m_triangles
  /\ feature.m_parsed.m_metadata

\* C17 as stated: no call on a feature clears a parsed flag that was set.
C17_FlagsNeverCleared ==
  [][/\ feature.m_parsed.m_types => feature'.m_parsed.m_types
     /\ feature.m_parsed.m_common => feature'.m_parsed.m_common
     /\ feature.m_parsed.m_header2 => feature'.m_parsed.m_header2
     /\ feature.m_parsed.m_points => feature'.m_parsed.m_points
     /\ feature.m_parsed.m_triangles => feature'.m_parsed.m_triangles
     /\ feature.m_parsed.m_metadata => feature'.m_parsed.m_metadata
     /\ feature.m_parsed.m_metaIds => feature'.m_parsed.m_metaIds]_vars

\* C17, amended: the types, common, metadata and metaIds flags are never
\* cleared once set; the header2, points and triangles flags are cleared by
\* ResetGeometry on a feature that has load-info, and by no other call.
C17_FlagsClearedOnlyByReset ==
  [][/\ feature.m_parsed.m_types => feature'.m_parsed.m_types
     /\ feature.m_parsed.m_common => feature'.m_parsed.m_common
     /\ feature.m_parsed.m_metadata => feature'.m_parsed.m_metadata
     /\ feature.m_parsed.m_metaIds => feature'.m_parsed.m_metaIds
     /\ ~(lastCall'.op = "ResetGeometry" /\ feature.m_loadInfo)
          => /\ feature.m_parsed.m_header2 => feature'.m_parsed.m_header2
             /\ feature.m_parsed.m_points => feature'.m_parsed.m_points
             /\ feature.m_parsed.m_triangles => feature'.m_parsed.m_triangles]_vars

\* ResetGeometry has run on a record feature whose header2 stage had been
\* parsed: the geometry flags are clear, the others are still set
C17_Witness ==
  /\ lastCall.op = "ResetGeometry"
  /\ feature.m_loadInfo
  /\ feature.m_innerStats.m_size > 0
  /\ ~feature.m_parsed.m_header2
  /\ feature.m_parsed.m_types
  /\ feature.m_parsed.m_common
  /\ feature.m_parsed.m_metaIds

\* C18: ResetGeometry on a feature with load-info clears the header2, points
\* and triangles flags, the point and triangle sequences, both offset tables
\* and the simplification mask, and leaves the types and common flags, the
\* type array, the common params, the centre, and the metadata and metaIds
\* flags and data as they were; on a feature without load-info it changes
\* nothing.
C18_ResetGeometryFrame ==
  [][lastCall'.op = "ResetGeometry" =>
       IF feature.m_loadInfo
         THEN /\ ~feature'.m_parsed.m_header2
              /\ ~feature'.m_parsed.m_points
              /\ ~feature'.m_parsed.m_triangles
              /\ feature'.m_points = <<>>
              /\ feature'.m_triangles = <<>>
              /\ feature'.m_offsets.m_pts = <<>>
              /\ feature'.m_offsets.m_trg = <<>>
              /\ feature'.m_ptsSimpMask = 0
              /\ feature'.m_parsed.m_types = feature.m_parsed.m_types
              /\ feature'.m_parsed.m_common = feature.m_parsed.m_common
              /\ feature'.m_parsed.m_metadata = feature.m_parsed.m_metadata
              /\ feature'.m_parsed.m_metaIds = feature.m_parsed.m_metaIds
              /\ feature'.m_types = feature.m_types
              /\ feature'.m_params = feature.m_params
              /\ feature'.m_center = feature.m_center
              /\ feature'.m_metadata = feature.m_metadata
              /\ feature'.m_metaIds = feature.m_metaIds
         ELSE feature' = feature]_vars

\* ResetGeometry has run on an inner line with a name whose geometry and
\* metadata had been parsed
C18_Witness ==
  /\ lastCall.op = "ResetGeometry"
  /\ feature.m_loadInfo
  /\ feature.m_innerStats.m_points > 0
  /\ feature.m_points = <<>>
  /\ feature.m_parsed.m_common
  /\ feature.m_parsed.m_metadata
  /\ feature.m_metadata # <<>>

\* the last call looked an offset index up and returned
LookupMade ==
  /\ lastCall.op \in {"ParseGeometry", "ParseTriangles"}
  /\ lastCall.ind # NoLookup
  /\ feature.status = "ok"

\* the offset table that lookup read, and the indices whose offset is present
LookupTable ==
  IF lastCall.op = "ParseGeometry" THEN feature.m_offsets.m_pts ELSE feature.m_offsets.m_trg

PresentIndices == { i \in 0..(Len(LookupTable) - 1) : LookupTable[i + 1] # kInvalidOffset }

\* the requested scale after the clamp, and the indices whose scale is not below it
ClampedScale == IF lastCall.scale > GetLastScale THEN GetLastScale ELSE lastCall.scale

ScaleIndices == { i \in 0..(GetScalesCount - 1) : ClampedScale <= GetScale(i) }

SetMin(S) == CHOOSE x \in S : \A y \in S : x <= y

SetMax(S) == CHOOSE x \in S : \A y \in S : x >= y

\* C19 as stated: for a non-sentinel scale the lookup returns the smallest
\* index whose scale is not below the clamped scale and whose offset is
\* present, and -1 only when there is no such index.
C19_SmallestPresentIndex ==
  (LookupMade /\ lastCall.scale \notin {BEST_GEOMETRY, WORST_GEOMETRY})
    => lastCall.ind = IF ScaleIndices \cap PresentIndices = {} THEN 0 - 1
                      ELSE SetMin(ScaleIndices \cap PresentIndices)

\* C19, amended: for a non-sentinel scale the lookup takes the smallest index
\* i whose scale is not below the clamped scale, whatever its offset, and
\* returns i when offset[i] is present and -1 when it is absent, even if the
\* offset of a larger index is present.
C19_FirstScaleIndexIfPresent ==
  (LookupMade /\ lastCall.scale \notin {BEST_GEOMETRY, WORST_GEOMETRY})
    => /\ ScaleIndices # {}
       /\ lastCall.ind = IF SetMin(ScaleIndices) \in PresentIndices
                           THEN SetMin(ScaleIndices) ELSE 0 - 1

\* a lookup for a plain scale came back with -1 although the offset of a
\* larger index, also not below the scale, is present
C19_Witness ==
  /\ LookupMade
  /\ lastCall.scale \notin {BEST_GEOMETRY, WORST_GEOMETRY}
  /\ lastCall.ind = 0 - 1
  /\ ScaleIndices \cap PresentIndices # {}

\* C20: on an offset table with a present entry, the lookup with BEST_GEOMETRY
\* returns the highest index whose offset is present and the lookup with
\* WORST_GEOMETRY the lowest one.
C20_SentinelLookup ==
  (LookupMade /\ PresentIndices # {})
    => /\ lastCall.scale = BEST_GEOMETRY => lastCall.ind = SetMax(PresentIndices)
       /\ lastCall.scale = WORST_GEOMETRY => lastCall.ind = SetMin(PresentIndices)

\* a BEST_GEOMETRY lookup that had to step down past an absent offset
C20_Witness ==
  /\ LookupMade
  /\ lastCall.scale = BEST_GEOMETRY
  /\ lastCall.ind >= 0
  /\ lastCall.ind < Len(LookupTable) - 1

-----------------------------------------------------------------------------
(* Inner-line filtering *)

\* the feature as ParseHeader2 leaves it before any geometry is parsed: its
\* m_points are the stored points, its m_ptsSimpMask the stored markers
StoredFeature == ParseHeader2(ResetGeometry(feature))

StoredPoints == StoredFeature.m_points

\* the 0-based indices of the intermediate points, and the marker of one
Intermediates == 1..(Len(StoredPoints) - 2)

Marker(i) == (StoredFeature.m_ptsSimpMask \div Pow2(2 * (i - 1))) % 4

\* the intermediates whose marker passes at the scale of the last call
Passing == { i \in Intermediates : Marker(i) <= GetScaleIndex(lastCall.scale) }

\* the stored points at the 0-based indices K, in stored order
PointsAt(K) ==
  [j \in 1..Cardinality(K) |->
     StoredPoints[(CHOOSE k \in K : Cardinality({ x \in K : x < k }) = j - 1) + 1]]

\* the last call was a ParseGeometry that filtered an inner line
InnerFiltered ==
  /\ lastCall.op = "ParseGeometry"
  /\ ~lastCall.again
  /\ feature.status = "ok"
  /\ feature.m_loadInfo
  /\ HeaderGeomType(feature.m_header) = HeaderGeomTypeLine
  /\ Len(StoredPoints) >= 2

\* C21: for an inner line of n >= 2 stored points and any requested scale,
\* ParseGeometry leaves the stored points at a set of indices that holds the
\* first and the last one, in stored order; when some intermediate has a
\* marker <= the scale index of the request, that set holds exactly the
\* intermediates that have.
C21_InnerLineFilter ==
  InnerFiltered
    => LET K == { i \in Intermediates :
                   \E j \in 1..Len(feature.m_points) : feature.m_points[j] = StoredPoints[i + 1] }
       IN /\ feature.m_points = PointsAt({0, Len(StoredPoints) - 1} \cup K)
          /\ Passing # {} => K = Passing

\* a 5-point line filtered at a scale where one intermediate passes and
\* another does not
C21_Witness ==
  /\ InnerFiltered
  /\ Len(StoredPoints) = 5
  /\ Passing # {}
  /\ Passing # Intermediates
  /\ Len(feature.m_points) = 2 + Cardinality(Passing)

\* the smallest marker among the intermediates of an inner line
SmallestMarker == SetMin({ Marker(i) : i \in Intermediates })

\* C22 as stated: when an inner line has an intermediate point and none
\* passes the marker filter, ParseGeometry leaves the endpoints and exactly
\* the intermediates whose marker is the smallest marker of all intermediates,
\* so more than two points.
C22_FallbackToSmallestMarker ==
  (InnerFiltered /\ Intermediates # {} /\ Passing = {})
    => /\ feature.m_points =
            PointsAt({0, Len(StoredPoints) - 1}
                       \cup { i \in Intermediates : Marker(i) = SmallestMarker })
       /\ Len(feature.m_points) > 2

-----------------------------------------------------------------------------
(* Outer geometry: the offset lookup and its fallback *)

\* the last call was a ParseGeometry on an outer line (one stored point) whose
\* first offset lookup came back with -1 although the offset of an index below
\* the index of the requested scale is present
AbsentButCoarserPresent ==
  /\ lastCall.op = "ParseGeometry"
  /\ ~lastCall.again
  /\ feature.m_loadInfo
  /\ HeaderGeomType(feature.m_header) = HeaderGeomTypeLine
  /\ Len(StoredPoints) = 1
  /\ lastCall.ind = 0 - 1
  /\ \E i \in PresentIndices : \A k \in ScaleIndices : i < k

OuterAreaParsed ==
  /\ lastCall.op = "ParseTriangles"
  /\ ~lastCall.again
  /\ feature.status = "ok"
  /\ feature.m_loadInfo
  /\ HeaderGeomType(feature.m_header) = HeaderGeomTypeArea
  /\ StoredFeature.m_triangles = <<>>
  /\ PresentIndices # {}

\* C24 as stated: ParseTriangles on an outer area looks the offset index of
\* the requested scale up and, when it is absent, again with WORST_GEOMETRY,
\* so an area that has any level gets triangles at every requested scale:
\* those of the index the first lookup gave, else those of the lowest present
\* index.
C24_OuterAreaFallsBackToCoarser ==
  OuterAreaParsed
    => LET ind == IF lastCall.ind = 0 - 1 THEN SetMin(PresentIndices) ELSE lastCall.ind
           strip == LoadOuterPath(GetTrianglesReader(ind), LookupTable[ind + 1],
                                  DefBasePoint)
       IN /\ feature.m_triangles # <<>>
          /\ feature.m_triangles = strip.points

\* the number of points ParseGeometry gives at a scale, started from the reset
\* geometry state of the feature
PointsCountAt(scale) == Len(ParseGeometry(ResetGeometry(feature), scale).feature.m_points)

\* a line read from a record whose offset table fits the container
WellReadLine ==
  /\ feature.status = "ok"
  /\ feature.m_loadInfo
  /\ HeaderGeomType(feature.m_header) = HeaderGeomTypeLine
  /\ StoredFeature.status = "ok"

\* C25 as stated: for every line and every pair of plain scales s1 <= s2, each
\* parsed from the reset geometry state, ParseGeometry gives at s1 no more
\* points than at s2.
C25_CoarserScaleHasFewerPoints ==
  WellReadLine
    => \A s1, s2 \in 0..(GetLastScale + 1) :
         s1 <= s2 => PointsCountAt(s1) <= PointsCountAt(s2)

-----------------------------------------------------------------------------
(* Types *)

\* the i-th (0-based) type index of a record, read from the varints that
\* follow the header byte, and where that varint ends
RECURSIVE TypeIndexAt(_, _, _)
TypeIndexAt(data, pos, i) ==
  IF i = 0 THEN ReadVarUint(data, pos)
  ELSE TypeIndexAt(data, ReadVarUint(data, pos).pos, i - 1)

\* C26: ParseTypes never aborts; on a feature read from a record with
\* typesCount = n, once the types flag is set exactly the first n type slots
\* are filled, slot i with the classificator's type of the i-th index when it
\* has one and with the stub type otherwise, and m_offsets.m_common is the
\* offset just past the n-th index; every ParseTypes call ends with the flag
\* set.
C26_TypesResolvedOrStub ==
  /\ lastCall.op = "ParseTypes" => (feature.status = "ok" /\ feature.m_parsed.m_types)
  /\ (feature.m_loadInfo /\ feature.status = "ok" /\ feature.m_parsed.m_types)
       => LET n == GetTypesCount(feature.m_header)
          IN /\ \A i \in 0..(n - 1) :
                  LET type == GetTypeForIndex(TypeIndexAt(feature.m_data, 1, i).value)
                  IN feature.m_types[i + 1] = IF type > 0 THEN type ELSE GetStubType
             /\ \A i \in n..(kMaxTypesCount - 1) : feature.m_types[i + 1] = 0
             /\ feature.m_offsets.m_common = TypeIndexAt(feature.m_data, 1, n - 1).pos

\* ParseTypes was called on a record whose second type index the classificator
\* does not know, and the slot holds the stub
C26_Witness ==
  /\ lastCall.op = "ParseTypes"
  /\ ~lastCall.again
  /\ feature.m_loadInfo
  /\ GetTypesCount(feature.m_header) = 2
  /\ GetTypeForIndex(TypeIndexAt(feature.m_data, 1, 1).value) = 0
  /\ feature.m_types[1] # GetStubType
  /\ feature.m_types[2] = GetStubType
  /\ feature.m_offsets.m_common = 4

-----------------------------------------------------------------------------
(* Metadata *)

\* C27: on a feature whose metadata section cannot be read, a ParseMetadata
\* call made with the metadata flag unset sets that flag and changes nothing
\* else, the metadata staying empty and the status ok; likewise ParseMetaIds
\* with the metaIds flag and the id index.
C27_MetadataFailureIsSwallowed ==
  [][(feature.status = "ok" /\ feature.m_loadInfo
        /\ feature.m_metadataDeserializer = "unreadable")
       => /\ (lastCall'.op = "ParseMetadata" /\ ~feature.m_parsed.m_metadata)
               => /\ feature' = [feature EXCEPT !.m_parsed.m_metadata = TRUE]
                  /\ feature'.m_metadata = <<>>
          /\ (lastCall'.op = "ParseMetaIds" /\ ~feature.m_parsed.m_metaIds)
               => /\ feature' = [feature EXCEPT !.m_parsed.m_metaIds = TRUE]
                  /\ feature'.m_metaIds = <<>>]_vars

\* both reads failed on a feature whose common section is parsed: the flags
\* are set and both results are empty
C27_Witness ==
  /\ feature.status = "ok"
  /\ feature.m_loadInfo
  /\ feature.m_metadataDeserializer = "unreadable"
  /\ lastCall.op = "ParseMetaIds"
  /\ ~lastCall.again
  /\ feature.m_parsed.m_metadata
  /\ feature.m_parsed.m_metaIds
  /\ feature.m_parsed.m_common
  /\ ~feature.m_parsed.m_header2
  /\ feature.m_metadata = <<>>
  /\ feature.m_metaIds = <<>>

-----------------------------------------------------------------------------
(* Load-info *)

\* the feature with its load-info taken away
WithoutLoadInfo == [feature EXCEPT !.m_loadInfo = FALSE]

\* C28: a feature constructed from bytes with a null load-info has failed the
\* fatal check and nothing of it was parsed; and each of ParseCommon,
\* ParseHeader2, ParseGeometry, ParseTriangles, ParseMetadata and ParseMetaIds,
\* applied with its flag unset to a feature without load-info, fails the fatal
\* check leaving every member as it was and returning no size.
C28_NullLoadInfoIsFatal ==
  /\ (feature.m_data # <<>> /\ ~feature.m_loadInfo)
       => /\ feature.status = "dead"
          /\ \A op \in StageOps : ~StageFlag(feature, op)
          /\ lastCall = NoCall
  /\ feature.status = "ok"
       => LET g == WithoutLoadInfo
          IN /\ ~g.m_parsed.m_common => ParseCommon(g) = Dead(g)
             /\ ~g.m_parsed.m_header2 => ParseHeader2(g) = Dead(g)
             /\ ~g.m_parsed.m_points
                  => \A scale \in RequestScales :
                       ParseGeometry(g, scale) = [feature |-> Dead(g), sz |-> 0, ind |-> NoLookup]
             /\ ~g.m_parsed.m_triangles
                  => \A scale \in RequestScales :
                       ParseTriangles(g, scale) = [feature |-> Dead(g), sz |-> 0, ind |-> NoLookup]
             /\ ~g.m_parsed.m_metadata => ParseMetadata(g) = Dead(g)
             /\ ~g.m_parsed.m_metaIds => ParseMetaIds(g) = Dead(g)

\* a feature was constructed from bytes with a null load-info
C28_Witness ==
  /\ feature.m_data # <<>>
  /\ ~feature.m_loadInfo
  /\ feature.m_metadataDeserializer # "null"
  /\ feature.status = "dead"

-----------------------------------------------------------------------------
(* TtsPlayer (app.organicmaps.sound.TtsPlayer)                               *)
(*                                                                           *)
(* tts holds the fields of the singleton (mTts, mInitializing, mUnavailable, *)
(* mAudioManager), the stored settings Config.TTS.isEnabled / getLanguage,   *)
(* the native turn-notification switch, the pending OnInitListener callback, *)
(* the number of speak runnables posted to delayHandler, and whether a       *)
(* NullPointerException ended the process.  A language is the number of its  *)
(* code, 0 standing for null.  A method is an operator on a run              *)
(* [t |-> fields, calls |-> the TextToSpeech calls made so far], each call   *)
(* recorded with the value mUnavailable had when it was made.                *)

\* speak runnables that may wait in delayHandler
MaxDelayed == 2

\* Locale.US, Locale.getDefault() and R.array.tts_languages_supported
DEFAULT_LOCALE == 1
SystemLocale == 2
tts_languages_supported == {DEFAULT_LOCALE, SystemLocale}

\* what new LanguageData(code, name, mTts) may give for each supported code:
\* a voice that is downloaded or not, NotAvailableException or
\* IllegalArgumentException
LanguageOutcomes ==
  [tts_languages_supported -> {"downloaded", "notDownloaded", "notAvailable", "illegal"}]

\* a call of a TextToSpeech method (or its constructor) is made
EngineCall(r, method) ==
  [r EXCEPT !.calls = Append(@, [method |-> method, unavailable |-> r.t.mUnavailable])]

\* TtsPlayer.setEnabled
setEnabled(r, enabled) ==
  [r EXCEPT !.t.enabled = enabled, !.t.turnNotifications = enabled]

\* TtsPlayer.lockDown
lockDown(r) ==
  setEnabled([r EXCEPT !.t.mUnavailable = TRUE], FALSE)

\* TtsPlayer.isReady and isEnabled
isReady(t) == t.mTts # "null" /\ ~t.mUnavailable /\ ~t.mInitializing

isEnabled(t) == isReady(t) /\ t.turnNotifications

\* TtsPlayer.setLanguageInternal: the result is in ok; a null mTts ends the
\* process
setLanguageInternal(r, lang, throws) ==
  IF r.t.mTts = "null" THEN [run |-> [r EXCEPT !.t.crashed = TRUE], ok |-> FALSE]
  ELSE IF throws THEN [run |-> lockDown(EngineCall(r, "setLanguage")), ok |-> FALSE]
  ELSE [run |-> [EngineCall(r, "setLanguage") EXCEPT !.t.language = lang], ok |-> TRUE]

\* TtsPlayer.setLanguage
setLanguage(r, lang, throws) ==
  IF lang # 0 THEN setLanguageInternal(r, lang, throws) ELSE [run |-> r, ok |-> FALSE]

\* TtsPlayer.getDefaultLanguage over the usable languages langs (code -> outcome)
getDefaultLanguage(langs) ==
  IF langs[SystemLocale] = "downloaded" THEN SystemLocale
  ELSE IF langs[DEFAULT_LOCALE] = "downloaded" THEN DEFAULT_LOCALE
  ELSE 0

\* TtsPlayer.refreshLanguagesInternal with getUsableLanguages and
\* getSelectedLanguage: the run and the language chosen
refreshLanguagesInternal(r, langs) ==
  IF \E code \in tts_languages_supported : langs[code] = "illegal"
    THEN [run |-> lockDown(r), lang |-> 0]
  ELSE IF \A code \in tts_languages_supported : langs[code] = "notAvailable"
    THEN [run |-> lockDown(r), lang |-> 0]
  ELSE LET selected == r.t.language
           res == IF selected \in tts_languages_supported /\ langs[selected] = "downloaded"
                    THEN selected ELSE getDefaultLanguage(langs)
       IN IF res = 0 THEN [run |-> [r EXCEPT !.t.enabled = FALSE], lang |-> 0]
          ELSE [run |-> r, lang |-> res]

\* TtsPlayer.refreshLanguages
refreshLanguages(r, langs, throws) ==
  IF r.t.mUnavailable \/ r.t.mTts = "null" THEN r
  ELSE LET internal == refreshLanguagesInternal(r, langs)
           set == setLanguage(internal.run, internal.lang, throws).run
       IN setEnabled(set, set.t.enabled)

\* TtsPlayer.speak: with TTS enabled in the settings it asks mAudioManager and
\* posts the runnable that calls mTts.speak
speak(r, throws) ==
  IF ~r.t.enabled THEN r
  ELSE IF r.t.mAudioManager = "null" THEN [r EXCEPT !.t.crashed = TRUE]
  ELSE IF throws THEN lockDown(r)
  ELSE [r EXCEPT !.t.delayed = @ + 1]

\* a public method starts on the fields as they are; its run becomes the state
Run == [t |-> tts, calls |-> <<>>]

PlayerStep(r) ==
  /\ ~tts.crashed
  /\ tts' = r.t
  /\ engineCalls' = r.calls
  /\ UNCHANGED <<managerVars, decoderVars, matcherVars>>

\* TtsPlayer.initialize up to the construction of the engine
TtsInitialize ==
  PlayerStep(IF tts.mTts # "null" \/ tts.mInitializing \/ tts.mUnavailable THEN Run
             ELSE [EngineCall(Run, "TextToSpeech") EXCEPT
                     !.t.mInitializing = TRUE, !.t.mTts = "engine",
                     !.t.callback = "pending"])

\* the OnInitListener of initialize, run on the UI thread
TtsInitListener(status, langs, throws) ==
  /\ tts.callback = "pending"
  /\ PlayerStep(
       IF status = "ERROR"
         THEN [lockDown(Run) EXCEPT !.t.mInitializing = FALSE, !.t.callback = "none"]
       ELSE [EngineCall(EngineCall(refreshLanguages(Run, langs, throws), "setSpeechRate"),
                        "setOnUtteranceProgressListener") EXCEPT
               !.t.mAudioManager = "set", !.t.mInitializing = FALSE,
               !.t.callback = "none"])

TtsSetEnabled(enabled) == PlayerStep(setEnabled(Run, enabled))

TtsSetLanguage(lang, throws) == PlayerStep(setLanguage(Run, lang, throws).run)

TtsRefreshLanguages(langs, throws) == PlayerStep(refreshLanguages(Run, langs, throws))

TtsSpeak(throws) ==
  /\ tts.delayed < MaxDelayed
  /\ PlayerStep(speak(Run, throws))

\* the runnable speak posted to delayHandler
TtsDelayedSpeak ==
  /\ tts.delayed > 0
  /\ PlayerStep([EngineCall(Run, "speak") EXCEPT !.t.delayed = @ - 1])

\* TtsPlayer.playTurnNotifications with n notifications, of which the
\* throwAt-th speak (if any) ends in IllegalArgumentException
TtsPlayTurnNotifications(n, throwAt) ==
  /\ tts.delayed + n <= MaxDelayed
  /\ PlayerStep(IF ~isReady(tts) THEN Run
                ELSE IF n = 1 THEN speak(Run, throwAt = 1)
                ELSE speak(speak(Run, throwAt = 1), throwAt = 2))

\* TtsPlayer.stop
TtsStop(throws) ==
  PlayerStep(IF ~isReady(tts) THEN Run
             ELSE IF throws THEN lockDown(EngineCall(Run, "stop"))
             ELSE EngineCall(Run, "stop"))

InitTts ==
  /\ ManagerInit
  /\ feature = NoFeature
  /\ lastCall = NoCall
  /\ tts \in { PlayerConstructed(enabled, turnNotifications, language) :
                 enabled \in BOOLEAN, turnNotifications \in BOOLEAN,
                 language \in {0} \cup tts_languages_supported }
  /\ engineCalls = <<>>
  /\ matcher = NoMatcher

NextTts ==
  \/ TtsInitialize
  \/ \E status \in {"SUCCESS", "ERROR"}, langs \in LanguageOutcomes, throws \in BOOLEAN :
       TtsInitListener(status, langs, throws)
  \/ \E enabled \in BOOLEAN : TtsSetEnabled(enabled)
  \/ \E lang \in {0} \cup tts_languages_supported, throws \in BOOLEAN :
       TtsSetLanguage(lang, throws)
  \/ \E langs \in LanguageOutcomes, throws \in BOOLEAN : TtsRefreshLanguages(langs, throws)
  \/ \E throws \in BOOLEAN : TtsSpeak(throws)
  \/ TtsDelayedSpeak
  \/ \E n \in 1..2, throwAt \in 0..2 : TtsPlayTurnNotifications(n, throwAt)
  \/ \E throws \in BOOLEAN : TtsStop(throws)

SpecTts == InitTts /\ [][NextTts]_vars

-----------------------------------------------------------------------------
(* Properties of TtsPlayer *)

\* C29 as stated: once TtsPlayer is locked down, whatever is called next,
\* the unavailable flag stays true, isEnabled() is false and no call is made
\* on the TextToSpeech engine.
C29_LockDownIsFinal ==
  [][tts.mUnavailable
       => /\ tts'.mUnavailable
          /\ ~isEnabled(tts')
          /\ engineCalls' = <<>>]_vars

\* ---------------------------------------------------------------------------
\* Header2 layout
\* ---------------------------------------------------------------------------

\* the feature as ParseHeader2 left it: no geometry call has touched it since
Header2Fresh ==
  /\ feature.status = "ok"
  /\ feature.m_loadInfo
  /\ feature.m_parsed.m_header2
  /\ ~feature.m_parsed.m_points
  /\ ~feature.m_parsed.m_triangles

\* the first byte of the header2 part of a Line or Area record
FirstHeader2Byte == feature.m_data[feature.m_offsets.m_header2 + 1]

\* the positions of the set bits of a 4-bit mask
MaskBits(mask) == { k \in 0..3 : (mask \div Pow2(k)) % 2 = 1 }

\* the table has one entry per scale, present exactly at the set bits
TableFilled(table, mask) ==
  /\ Len(table) = GetScalesCount
  /\ \A i \in 0..(GetScalesCount - 1) :
       (table[i + 1] # kInvalidOffset) <=> (i \in MaskBits(mask))

\* C31: after ParseHeader2, a Line or Area record whose first header2 byte has
\* a non-zero low nibble holds inner geometry (as many points as the nibble
\* says for a Line, two more strip points for an Area) and empty offset
\* tables; with a zero low nibble the high nibble is the presence mask and
\* the offset table of the record's kind is filled; a Point record has no
\* geometry, no table and no header2 byte consumed.
C31_Header2BitLayout ==
  Header2Fresh =>
    LET type == HeaderGeomType(feature.m_header)
        count == FirstHeader2Byte % 16
        mask == FirstHeader2Byte \div 16
    IN IF type = HeaderGeomTypePoint
         THEN /\ feature.m_points = <<>> /\ feature.m_triangles = <<>>
              /\ feature.m_offsets.m_pts = <<>> /\ feature.m_offsets.m_trg = <<>>
              /\ feature.m_innerStats.m_size = feature.m_offsets.m_header2
       ELSE IF type = HeaderGeomTypeLine
         THEN /\ feature.m_triangles = <<>> /\ feature.m_offsets.m_trg = <<>>
              /\ IF count > 0
                   THEN Len(feature.m_points) = count /\ feature.m_offsets.m_pts = <<>>
                   ELSE Len(feature.m_points) = 1
                          /\ TableFilled(feature.m_offsets.m_pts, mask)
       ELSE /\ feature.m_points = <<>> /\ feature.m_offsets.m_pts = <<>>
            /\ IF count > 0
                 THEN Len(feature.m_triangles) = count + 2
                        /\ feature.m_offsets.m_trg = <<>>
                 ELSE feature.m_triangles = <<>>
                        /\ TableFilled(feature.m_offsets.m_trg, mask)

\* ParseHeader2 has just filled the table of an outer line whose mask has a gap
C31_Witness ==
  /\ Header2Fresh
  /\ lastCall.op = "ParseHeader2"
  /\ HeaderGeomType(feature.m_header) = HeaderGeomTypeLine
  /\ FirstHeader2Byte = 16 * 5
  /\ feature.m_offsets.m_pts[1] = 2
  /\ feature.m_offsets.m_pts[2] = kInvalidOffset
  /\ feature.m_offsets.m_pts[3] = 4

\* ---------------------------------------------------------------------------
\* Simplification mask bytes
\* ---------------------------------------------------------------------------

\* ParseHeader2 has just read an inner line
InnerLineFresh ==
  /\ Header2Fresh
  /\ HeaderGeomType(feature.m_header) = HeaderGeomTypeLine
  /\ FirstHeader2Byte % 16 > 0

\* the bytes ParseHeader2 consumed between the count byte and the first delta
MaskBytesRead ==
  feature.m_innerStats.m_size - feature.m_innerStats.m_points
    - feature.m_offsets.m_header2 - 1

\* the j-th byte, from 0, after the count byte
MaskByte(j) == feature.m_data[feature.m_offsets.m_header2 + 2 + j]

\* the least c with 4 * c >= n
CeilDiv4(n) == CHOOSE c \in 0..n : 4 * c >= n /\ 4 * (c - 1) < n

\* the mask bytes are as many as the point count needs and sit byte after
\* byte in the simplification mask
MaskBytesLaidOut ==
  LET ptsCount == FirstHeader2Byte % 16
  IN /\ MaskBytesRead = CeilDiv4(ptsCount - 2)
     /\ \A j \in 0..(MaskBytesRead - 1) :
          (feature.m_ptsSimpMask \div Pow2(8 * j)) % 256 = MaskByte(j)
     /\ \A j \in 0..3 :
          j >= MaskBytesRead => (feature.m_ptsSimpMask \div Pow2(8 * j)) % 256 = 0

\* C32: for an inner line of ptsCount points, 2 <= ptsCount <= 15, ParseHeader2
\* reads ceil((ptsCount - 2) / 4) mask bytes, fewer than 4, and byte j of them
\* is bits 8j..8j+7 of the simplification mask.
C32_MaskBytes ==
  InnerLineFresh => MaskBytesLaidOut /\ MaskBytesRead < 4

\* ---------------------------------------------------------------------------
\* Outer offset tables
\* ---------------------------------------------------------------------------

\* ParseHeader2 has just read the offset table of an outer line or area
OuterFresh ==
  /\ Header2Fresh
  /\ HeaderGeomType(feature.m_header) # HeaderGeomTypePoint
  /\ FirstHeader2Byte % 16 = 0

\* the presence mask of the record
OuterMask == FirstHeader2Byte \div 16

\* the table ParseHeader2 filled
OuterTable ==
  IF HeaderGeomType(feature.m_header) = HeaderGeomTypeLine
    THEN feature.m_offsets.m_pts ELSE feature.m_offsets.m_trg

\* where the first varint of the table sits: after the mask byte and, for a
\* line, the first point
OffsetsStart ==
  feature.m_offsets.m_header2 + 1
    + (IF HeaderGeomType(feature.m_header) = HeaderGeomTypeLine THEN 1 ELSE 0)

\* the varint written for bit k: the set bits below k come before it
VarintOfBit(k) ==
  feature.m_data[OffsetsStart + Cardinality({ x \in MaskBits(OuterMask) : x < k }) + 1]

\* the stored bits of the mask at positions S are in the table, the others of
\* S are invalid, and one varint per set bit of the whole mask was consumed
OffsetsStored(S) ==
  /\ feature.m_innerStats.m_size = OffsetsStart + Cardinality(MaskBits(OuterMask))
  /\ Len(OuterTable) = GetScalesCount
  /\ \A k \in S :
       IF k \in MaskBits(OuterMask)
         THEN k < Len(OuterTable) /\ OuterTable[k + 1] = VarintOfBit(k)
         ELSE k < Len(OuterTable) => OuterTable[k + 1] = kInvalidOffset

\* C33: ReadOffsets consumes one varint per set bit of the 4-bit mask, lowest
\* bit first, and the varint of bit k is the table entry at index k; entries
\* of clear bits are invalid and the table has one entry per scale.
C33_OffsetsPerMaskBit ==
  OuterFresh => OffsetsStored(0..3)

\* C35: ReadOffsets stores at no index past the table, whatever the presence
\* mask and the scales count, and the index a lookup settles on is inside the
\* table.
C35_OffsetIndicesInsideTable ==
  /\ (feature.status = "ok" /\ feature.m_loadInfo)
       => ParseHeader2(feature).status # "undefined"
  /\ (LookupMade /\ lastCall.ind # 0 - 1)
       => lastCall.ind \in 0..(Len(LookupTable) - 1)

\* ---------------------------------------------------------------------------
\* Reset and reparse
\* ---------------------------------------------------------------------------

\* the feature as constructed from the bytes of the current one
FreshFeature ==
  FeatureFromBuffer(TRUE, feature.m_data, feature.m_metadataDeserializer, feature.m_id)

\* what a geometry parse is answerable for: points, simplification mask,
\* offset tables and the flags of the stages up to the geometry
GeometryView(f) ==
  [m_points |-> f.m_points, m_ptsSimpMask |-> f.m_ptsSimpMask,
   m_pts |-> f.m_offsets.m_pts, m_trg |-> f.m_offsets.m_trg,
   m_parsed |-> [f.m_parsed EXCEPT !.m_metadata = FALSE, !.m_metaIds = FALSE]]

\* ParseGeometry ran on a record feature right after a ResetGeometry of
\* parsed points
Reparsed ==
  /\ feature.m_loadInfo
  /\ lastCall.op = "ParseGeometry"
  /\ lastCall.reset = "before"
  /\ feature.status = "ok"

\* C36: after ParseGeometry(s1), ResetGeometry, ParseGeometry(s2) the points,
\* the simplification mask, the offset tables and the parsed flags (those of
\* the metadata stages, which the three calls do not touch, set aside) are
\* those of a freshly constructed feature after ParseGeometry(s2).
C36_ReparseEqualsFreshParse ==
  Reparsed
    => GeometryView(feature) = GeometryView(ParseGeometry(FreshFeature, lastCall.scale).feature)

\* an outer line whose points were parsed was reset and parsed again, this
\* time from level 1
C36_Witness ==
  /\ Reparsed
  /\ HeaderGeomType(feature.m_header) = HeaderGeomTypeLine
  /\ feature.m_offsets.m_pts # <<>>
  /\ lastCall.ind = 1
  /\ Len(feature.m_points) = 3

\* ---------------------------------------------------------------------------
\* Geometry is parsed once
\* ---------------------------------------------------------------------------

\* C37: a ParseGeometry call on a feature whose points are parsed, whatever
\* its scale, leaves the points, the limit rect and every parsed flag as they
\* were and returns 0; so does a ParseTriangles call on a feature whose
\* triangles are parsed, for the triangles.
C37_SecondGeometryParseIgnored ==
  [][/\ (lastCall'.op = "ParseGeometry" /\ feature.m_parsed.m_points)
          => /\ feature'.m_points = feature.m_points
             /\ feature'.m_limitRect = feature.m_limitRect
             /\ feature'.m_parsed = feature.m_parsed
             /\ lastCall'.sz = 0
     /\ (lastCall'.op = "ParseTriangles" /\ feature.m_parsed.m_triangles)
          => /\ feature'.m_triangles = feature.m_triangles
             /\ feature'.m_limitRect = feature.m_limitRect
             /\ feature'.m_parsed = feature.m_parsed
             /\ lastCall'.sz = 0]_vars

\* ParseGeometry was called on parsed points with a scale that, asked first,
\* would have given other points
C37_Witness ==
  /\ lastCall.op = "ParseGeometry"
  /\ lastCall.again
  /\ feature.status = "ok"
  /\ feature.m_loadInfo
  /\ HeaderGeomType(feature.m_header) = HeaderGeomTypeLine
  /\ feature.m_points # ParseGeometry(StoredFeature, lastCall.scale).feature.m_points

-----------------------------------------------------------------------------
(* Tasks of a surviving tile *)

\* the pending tasks bound to TileInfo id, and the pending or running ones
PendingOf(tasks, id) == Cardinality({ i \in 1..Len(tasks) : tasks[i] = id })

TasksOf(id) == PendingOf(m_tasks, id) + Cardinality({ w \in Workers : workers[w].task = id })

\* C34: the step of an incremental update that reschedules adds exactly one
\* pending task for every surviving TileInfo, whatever number of tasks of
\* that TileInfo is pending or running already, and the TileInfo is not
\* cancelled; the running tasks are left alone.
C34_SurvivorGetsOneMoreTask ==
  [][(managerPc = "incremental" /\ managerPc' = "idle")
       => /\ workers' = workers
          /\ \A id \in SeqToSet(m_tileInfos) :
               /\ ~heap'[id].cancelled
               /\ id \in SeqToSet(m_tileInfos')
               /\ PendingOf(m_tasks', id) = PendingOf(m_tasks, id) + 1]_vars

\* after an incremental update a live TileInfo has a task running and two
\* more pending
C34_Witness ==
  /\ IncrementalCompleted
  /\ \E id \in SeqToSet(m_tileInfos) :
       /\ ~heap[id].cancelled
       /\ id \in SeqToSet(last.pushedFront)
       /\ TasksOf(id) >= 3
       /\ \E w \in Workers : workers[w].task = id

-----------------------------------------------------------------------------
(* Cancelled means not live *)

\* no manager call is in progress
CallCompleted == managerPc \in {"idle", "joining", "stopped"}

\* C38: whenever UpdateCoverage or Stop has returned, a TileInfo the manager
\* has ever created is cancelled exactly if it is not in the live set, so
\* every pending or running task of a tile that is not live sees the flag set.
C38_CancelledIffNotLive ==
  CallCompleted
    => /\ \A id \in 1..Len(heap) :
            heap[id].cancelled <=> id \notin SeqToSet(m_tileInfos)
       /\ \A id \in SeqToSet(m_tasks) \cup { workers[w].task : w \in Workers } :
            (id # 0 /\ id \notin SeqToSet(m_tileInfos)) => heap[id].cancelled

\* an incremental update has returned that cancelled a tile with a task still
\* pending and kept another tile live
C38_Witness ==
  /\ IncrementalCompleted
  /\ \E id \in CancelledByLast : id \in SeqToSet(m_tasks)
  /\ \E id \in SeqToSet(m_tileInfos) : id \in SeqToSet(last.prevTileInfos)

-----------------------------------------------------------------------------
(* Full reset: tasks before drop_all *)

\* C39: while a full reset is between its pushes and its descriptor call, the
\* descriptor has no drop_all yet although one task per tile of the new set
\* has been handed to the pool, bound to a fresh TileInfo that is live and not
\* cancelled; the descriptor call that follows adds the drop_all and touches
\* neither the pool nor the tiles.  (A worker can therefore deliver a feature
\* of a new tile before the drop_all: C39_Witness.)
C39_TasksPushedBeforeDropAll ==
  [][/\ managerPc' = "reset"
          => /\ descr'.dropAll = 0
             /\ last'.pushedBack = [i \in 1..Len(local'.tiles) |-> Len(last'.prevHeap) + i]
             /\ \A i \in 1..Len(local'.tiles) :
                  LET id == last'.pushedBack[i]
                  IN /\ heap'[id].key = local'.tiles[i]
                     /\ ~heap'[id].cancelled
                     /\ id \in SeqToSet(m_tileInfos')
     /\ (managerPc = "reset" /\ managerPc' = "idle")
          => /\ descr'.dropAll = 1
             /\ m_tasks' = m_tasks /\ heap' = heap /\ m_tileInfos' = m_tileInfos
             /\ workers' = workers /\ context' = context]_vars

\* the descriptor of a full reset has not received drop_all, and a worker has
\* already delivered a feature of a tile that this reset scheduled
C39_Witness ==
  /\ managerPc = "reset"
  /\ descr.dropAll = 0
  /\ \E w \in Workers :
       /\ workers[w].task \in CreatedByLast
       /\ workers[w].fid > 1
       /\ <<heap[workers[w].task].key, 1>> \in context

-----------------------------------------------------------------------------
(* FeaturesLayerMatcher: MatchPOIsWithStreets and MatchPOIsWithBuildings     *)
(*                                                                           *)
(* A layer is a list of feature ids; position i of the child list is POI i,  *)
(* position i of the parent list is street or building i.  Coordinates are   *)
(* left out: a helper vector entry is modelled by the position of the        *)
(* feature whose centre or geometry it holds, and whether a point is near a  *)
(* geometry is a free choice.  An emitted pair remembers whose centre and    *)
(* whose geometry the decision read.                                         *)

\* features a layer may hold
MaxLayerSize == 3

\* what an access past the end of a helper vector yields: no feature's data
Garbage == 0 - 1

\* the id of a building found around a POI by MwmContext::ForEachFeature
NearbyHouse == MaxLayerSize

\* a matching call at its entry: the sizes of the two layers, the positions
\* whose feature GetFeature yields, and whether the delayed pass will run
\* (parent.m_hasDelayedFeatures and a non-empty parsed query)
MatcherStart(kind, pois, loadedPois, parents, loadedParents, delayed) ==
  [pc |-> "pois", kind |-> kind, i |-> 0,
   pois |-> pois, loadedPois |-> loadedPois,
   parents |-> parents, loadedParents |-> loadedParents, delayed |-> delayed,
   poiCenters |-> <<>>, rects |-> <<>>, streetProjectors |-> <<>>,
   reported |-> {}, emitted |-> {}, outOfBounds |-> FALSE]

\* FeaturesLayerMatcher::GetByIndex: null for a feature that cannot be loaded
GetByIndex(loaded, i) == i \in loaded

\* fn(pois[poi], parent), decided from the centre of POI centreOf and the
\* geometry of parent geomOf
Emit(m, poi, parent, centreOf, geomOf) ==
  [m EXCEPT !.emitted = @ \cup {[poi |-> poi, parent |-> parent,
                                  centreOf |-> centreOf, geomOf |-> geomOf]}]

\* operator[] of a helper vector: the entry, or anything past the end
At(vector, i) == IF i < Len(vector) THEN vector[i + 1] ELSE Garbage

\* one turn of the loop that fills poiCenters (the same in both functions)
MatcherLoadPoi ==
  /\ matcher.pc = "pois"
  /\ LET i == matcher.i
         last_ == i + 1 = matcher.pois
     IN matcher' = [matcher EXCEPT
          !.poiCenters = IF GetByIndex(matcher.loadedPois, i) THEN Append(@, i) ELSE @,
          !.i = IF last_ THEN 0 ELSE i + 1,
          !.pc = IF last_ THEN "parents" ELSE "pois"]
  /\ UNCHANGED <<managerVars, decoderVars, playerVars>>

\* one turn of the loop over the parent layer: a loaded building adds its
\* rect; a loaded street adds the rects of its segments and its projector
MatcherLoadParent ==
  /\ matcher.pc = "parents"
  /\ LET i == matcher.i
         last_ == i + 1 = matcher.parents
         res == GetByIndex(matcher.loadedParents, i)
     IN matcher' = [matcher EXCEPT
          !.rects = IF res THEN Append(@, i) ELSE @,
          !.streetProjectors = IF res /\ matcher.kind = "streets" THEN Append(@, i) ELSE @,
          !.i = IF last_ THEN 0 ELSE i + 1,
          !.pc = IF last_ THEN "match" ELSE "parents"]
  /\ UNCHANGED <<managerVars, decoderVars, playerVars>>

\* PointRectMatcher::Match reports a pair of ids it was given; the callback
\* of MatchPOIsWithBuildings emits it, the callback of MatchPOIsWithStreets
\* reads poiCenters[poiId] and streetProjectors[streetId] and emits the pair
\* if the projection is near enough.  A read past the end is undefined: the
\* call dies or goes on with what it read.
MatcherCallback(poiId, parentId, near) ==
  /\ matcher.pc = "match"
  /\ poiId \in SeqToSet(matcher.poiCenters)
  /\ parentId \in SeqToSet(matcher.rects)
  /\ <<poiId, parentId>> \notin matcher.reported
  /\ LET m == [matcher EXCEPT !.reported = @ \cup {<<poiId, parentId>>}]
         inside == poiId < Len(m.poiCenters) /\ parentId < Len(m.streetProjectors)
     IN IF m.kind = "buildings"
          THEN matcher' = Emit(m, poiId, parentId, poiId, parentId)
        ELSE IF inside
          THEN matcher' = IF near THEN Emit(m, poiId, parentId, At(m.poiCenters, poiId),
                                            At(m.streetProjectors, parentId))
                          ELSE m
        ELSE LET u == [m EXCEPT !.outOfBounds = TRUE]
             IN matcher' \in { [u EXCEPT !.pc = "dead"],
                               IF near THEN Emit(u, poiId, parentId, At(u.poiCenters, poiId),
                                                 At(u.streetProjectors, parentId))
                               ELSE u }
  /\ UNCHANGED <<managerVars, decoderVars, playerVars>>

\* Match has returned: MatchPOIsWithStreets is over, MatchPOIsWithBuildings
\* goes on to the delayed buildings if there are any
MatcherMatched ==
  /\ matcher.pc = "match"
  /\ matcher' = [matcher EXCEPT
       !.pc = IF matcher.kind = "buildings" /\ matcher.delayed THEN "delayed" ELSE "done"]
  /\ UNCHANGED <<managerVars, decoderVars, playerVars>>

\* one turn of the loop over the delayed buildings: the features around
\* poiCenters[i] are read and a house near enough is emitted with pois[i]
MatcherDelayed(near) ==
  /\ matcher.pc = "delayed"
  /\ LET i == matcher.i
         last_ == i + 1 = matcher.pois
         m == [matcher EXCEPT !.i = IF last_ THEN 0 ELSE i + 1,
                              !.pc = IF last_ THEN "done" ELSE "delayed"]
         found == IF near THEN Emit(m, i, NearbyHouse, At(m.poiCenters, i), NearbyHouse)
                  ELSE m
     IN IF i < Len(matcher.poiCenters)
          THEN matcher' = found
          ELSE matcher' \in { [matcher EXCEPT !.outOfBounds = TRUE, !.pc = "dead"],
                              [found EXCEPT !.outOfBounds = TRUE] }
  /\ UNCHANGED <<managerVars, decoderVars, playerVars>>

InitMatcher ==
  /\ ManagerInit
  /\ feature = NoFeature
  /\ lastCall = NoCall
  /\ PlayerInit
  /\ matcher \in { MatcherStart(kind, pois, loadedPois, parents, loadedParents, delayed) :
                     kind \in {"streets", "buildings"},
                     pois \in 1..MaxLayerSize, loadedPois \in SUBSET (0..(MaxLayerSize - 1)),
                     parents \in 1..MaxLayerSize,
                     loadedParents \in SUBSET (0..(MaxLayerSize - 1)),
                     delayed \in BOOLEAN }

NextMatcher ==
  \/ MatcherLoadPoi
  \/ MatcherLoadParent
  \/ \E poiId, parentId \in 0..(MaxLayerSize - 1), near \in BOOLEAN :
       MatcherCallback(poiId, parentId, near)
  \/ MatcherMatched
  \/ \E near \in BOOLEAN : MatcherDelayed(near)

SpecMatcher == InitMatcher /\ [][NextMatcher]_vars

\* C40: in MatchPOIsWithStreets and MatchPOIsWithBuildings, whichever
\* features fail to load, no helper vector is read past its end and every
\* emitted pair was decided from the centre of its own POI and the geometry
\* of its own parent.
C40_HelperVectorsAligned ==
  matcher.pc # "none"
    => /\ ~matcher.outOfBounds
       /\ \A e \in matcher.emitted : e.centreOf = e.poi /\ e.geomOf = e.parent

====
